---------------------------- MODULE Spec2Model ----------------------------
(***************************************************************************)
(* Model of the voice pipeline's control core:                             *)
(*   - the segmentation engine  run_recording_loop  (mic_driver/recording) *)
(*   - the recording-control flags             (mic_driver/recording_control)*)
(*   - the utterance callback  MicDriverNode._on_utterance                 *)
(*   - the intent router and the command converter   (cognitive/...)       *)
(*                                                                         *)
(* Spec          the engine thread interleaved with a second thread that   *)
(*               calls pause_recording / resume_recording.                 *)
(* PipelineSpec  one invocation after another of _on_utterance, with the   *)
(*               cognitive pipeline it drives.                             *)
(***************************************************************************)
EXTENDS Integers, Sequences, FiniteSets, TLC

\* ------------------------------------------------------------------ bounds
\* Well-formed frames the Frame Source delivers in one run of the model.
MaxFrames == 7
\* deque(maxlen=PRE_BUFFER_FRAMES); 500 // 30 = 16 in config.py, scaled down.
PRE_BUFFER_FRAMES == 2
\* int(SILENCE_LIMIT * RATE / FRAME_SIZE) = 33 in recording.py, scaled down.
SILENCE_FRAMES_THRESHOLD == 2
\* int(POST_RESUME_IGNORE_MS / 1000 * FRAMES_PER_SECOND), scaled down.
POST_RESUME_IGNORE_FRAMES == 2
\* MAX_RECORDING_SECONDS and SILENCE_EXIT in frame periods, scaled down.
MAX_RECORDING_TICKS == 2
SILENCE_EXIT_TICKS == 2

\* ---------------------------------------------------------- program constants
\* enhance_utterance returns (enhanced_np, target_sr, raw_filepath, enhanced_filepath)
EnhanceReturnArity == 4
\* enhanced_audio, enhanced_sr = enhance_utterance(...)
UnpackTargets == 2
\* enhance.py, line 198: the tuple enhance_utterance returns
EnhanceResult ==
    <<"enhanced_np", "target_sr", "raw_filepath", "enhanced_filepath">>

NoTime == -1

\* config.py: FRAME_SIZE = int(RATE * FRAME_DURATION_MS / 1000), SAMPLE_WIDTH
FRAME_SIZE == 1440
SAMPLE_WIDTH == 2
\* recording.py, line 26
EXPECTED_FRAME_SIZE == FRAME_SIZE * SAMPLE_WIDTH

VARIABLES
    \* recording_control.py: the two module-level threading.Event flags
    recording_paused,
    need_clear_buffer,
    \* run_recording_loop: position and locals
    pc,
    was_paused,
    ignore_frames_remaining,
    pre_buffer,
    recorded_frames,
    recording,
    recording_start_time,
    speech_end_time,
    consecutive_silence_frames,
    stop_requested,
    ret,
    \* the hardware stream: active or stopped, and whether audio captured
    \* while the engine was finalizing sits in its buffer
    stream_active,
    hw_buffered,
    \* the second thread: idle, or between the two writes of resume_recording
    ext_pc,
    \* history (not read by the program)
    nread,
    handed,
    trace,
    resume_req,
    resume_count,
    grace_discarded,
    has_reset,
    since_final,
    pause_writer,
    clear_sig,
    \* MicDriverNode._on_utterance: position, what speech-to-text gave, how
    \* process_input ended, what Speech Output answered, what it returned
    cb_pc,
    cb_stt,
    cb_proc,
    cb_speak,
    cb_ret,
    \* IntentRouter: threshold and _action_handlers; the latest call of route:
    \* its argument, its RouteDecision, and the calls made on the way
    router_threshold,
    action_handlers,
    route_input,
    route_output,
    calls,
    \* the use_tts argument of the latest call of route
    route_use_tts,
    \* history: the register_action calls made so far, in order
    reg_log,
    \* the converter called on its own: which function was called, the slot
    \* list, what slots_to_command gave, what convert_result gave
    conv_pc,
    conv_slots,
    conv_out,
    conv_result,
    \* the classifiers: the function called, the user's text, what the remote
    \* service does, the outcome, a local classifier's answer, the calls made
    cls_pc,
    cls_text,
    cls_remote,
    cls_out,
    cls_local,
    cls_trace,
    \* history of the latest read and the latest finalization (not read by
    \* the program)
    last_read,
    fin_cause,
    enh_outcome,
    cb_called,
    cb_args,
    cb_answer,
    \* audio_device_utils._pyaudio_instance, the shared PyAudio handle: live or
    \* terminated; and (history) the state it was in when the stream of the
    \* current session was opened on it
    pyaudio_instance,
    opened_on,
    \* history: well-formed frames the engine has taken since the latest call
    \* of pause_recording() returned (0, 1, 2 or more)
    since_pause

flagVars == <<recording_paused, need_clear_buffer>>
engineVars == <<pc, was_paused, ignore_frames_remaining, pre_buffer,
                recorded_frames, recording, recording_start_time,
                speech_end_time, consecutive_silence_frames, stop_requested,
                ret, stream_active, hw_buffered>>
histVars == <<nread, handed, trace, resume_req, resume_count,
              grace_discarded, has_reset, since_final, pause_writer,
              clear_sig>>
pipeVars == <<cb_pc, cb_stt, cb_proc, cb_speak, cb_ret, router_threshold,
              action_handlers, route_input, route_output, calls,
              route_use_tts, reg_log>>
convVars == <<conv_pc, conv_slots, conv_out, conv_result>>
clsVars == <<cls_pc, cls_text, cls_remote, cls_out, cls_local, cls_trace>>
finVars == <<last_read, fin_cause, enh_outcome, cb_called, cb_args, cb_answer>>
audioVars == <<pyaudio_instance, opened_on>>
raceVars == <<since_pause>>
vars == <<raceVars, audioVars, finVars, clsVars, convVars, flagVars, engineVars, ext_pc, histVars, pipeVars>>

\* ------------------------------------------------------------------ helpers
Min(a, b) == IF a < b THEN a ELSE b

\* name = value, then the statements after it: the value is computed once.
Bind(value, Rest(_)) == Rest(value)

\* A frame as the engine sees it: arrival index, the VAD's verdict, and
\* whether it was captured while the engine was finalizing.
Frame(k, sp, st) == [id |-> k, speech |-> sp, stale |-> st]

\* Time is kept as the age, in frame periods, of each time stamp at the
\* engine's latest current_time; an age beyond its threshold saturates.
Age(t, limit) == IF t = NoTime THEN NoTime ELSE Min(t + 1, limit + 1)

\* deque(maxlen=PRE_BUFFER_FRAMES).append(frame): the oldest is evicted.
DequeAppend(buf, f) ==
    IF Len(buf) >= PRE_BUFFER_FRAMES
    THEN Append(SubSeq(buf, Len(buf) - PRE_BUFFER_FRAMES + 2, Len(buf)), f)
    ELSE Append(buf, f)

\* recorded_frames.extend(pre_buffer)
ExtendWithPreBuffer(rec, buf) == rec \o buf

\* ignore_frames_remaining = POST_RESUME_IGNORE_FRAMES
ResetGraceAccumulates(ignore) == ignore + POST_RESUME_IGNORE_FRAMES
ResetGraceShort(ignore) == POST_RESUME_IGNORE_FRAMES - 1
ResetGrace(ignore) == POST_RESUME_IGNORE_FRAMES

\* stream.stop_stream()
StopStreamSkipped(active) == active
StopStream(active) == FALSE

\* resume_recording(): first _need_clear_buffer.set(), then
\* _recording_paused.clear().  Each is one write to one flag.
ResumeFirstClearsPause == [flag |-> "paused", value |-> FALSE]
ResumeFirstWrite == [flag |-> "clear", value |-> TRUE]
ResumeSecondWrite == [flag |-> "paused", value |-> FALSE]
\* pause_recording(): _recording_paused.set()
PauseWrite == [flag |-> "paused", value |-> TRUE]

WriteFlags(w) ==
    /\ recording_paused' = IF w.flag = "paused" THEN w.value ELSE recording_paused
    /\ need_clear_buffer' = IF w.flag = "clear" THEN w.value ELSE need_clear_buffer

\* len(frame) != EXPECTED_FRAME_SIZE, line 166, negated
WellFormedOrShort(len) == len <= EXPECTED_FRAME_SIZE
WellFormed(len) == len = EXPECTED_FRAME_SIZE

\* Byte lengths of the frames stream.read gives in the model.
FrameLengths ==
    {0, EXPECTED_FRAME_SIZE - SAMPLE_WIDTH, EXPECTED_FRAME_SIZE,
     EXPECTED_FRAME_SIZE + SAMPLE_WIDTH}

\* Lines 183 and 211-212: consecutive_silence_frames after a frame.
SilenceRunCountsWhileArmed(speech, rec, count) ==
    IF speech THEN 0 ELSE count + 1
SilenceRunNeverResets(speech, rec, count) ==
    IF ~speech /\ rec THEN count + 1 ELSE count
SilenceRun(speech, rec, count) ==
    IF speech THEN 0 ELSE IF rec THEN count + 1 ELSE count

\* Lines 192-196: the max-duration test, on the age of recording_start_time.
MaxDurationNeverExceeded(start) == FALSE
MaxDurationExceeded(start) == start # NoTime /\ start > MAX_RECORDING_TICKS

\* ------------------------------------------------------------------ history
\* What the history variables record:
\*   nread            well-formed frames the Frame Source has delivered
\*   handed           the frame lists given to enhance_utterance, in order
\*   trace            well-formed frames processed since the latest reset
\*   resume_req       a resume has set ClearBufferFlag ("set"), and returned
\*                    ("returned"), without a reset by the engine since; the
\*                    suffix _p: PauseFlag was set when that resume began
\*   resume_count     resume calls begun since the engine last took a
\*                    well-formed frame and since the last pause call
\*                    (0, 1, 2 or more)
\*   grace_discarded  well-formed frames discarded since the latest reset
\*   has_reset        the engine has performed a reset
\*   since_final      frame periods since the latest finalization with no
\*                    speech frame since, NoTime otherwise
\*   pause_writer     who wrote PauseFlag last
\*   clear_sig        the ClearBufferFlag signal of the latest resume call:
\*                    not yet set, set, or consumed by the engine
\*   last_read        how the latest stream.read of the session ended: "error",
\*                    "malformed", "grace" (dropped by the grace window) or
\*                    "frame" (processed)
\*   fin_cause        why the latest finalization since the latest reset
\*                    began: "cutoff" or "silence"
\*   enh_outcome      how enhance_utterance ended in that finalization:
\*                    "raised" or "returned"
\*   cb_called        invocations of on_utterance in that finalization
\*   cb_args          the arguments of that invocation
\*   cb_answer        what on_utterance returned: "false" or "true"
NoRead == [kind |-> "none", len |-> 0]
FailedRead == [kind |-> "error", len |-> 0]
FrameRead(len) == [kind |-> "frame", len |-> len]

\* No finalization since the latest reset.
NoFinalization ==
    /\ fin_cause' = "none"
    /\ enh_outcome' = "none"
    /\ cb_called' = 0
    /\ cb_args' = <<>>
    /\ cb_answer' = "none"

FrameTakenSincePause == since_pause' = Min(since_pause + 1, 2)

HistAfterPause ==
    /\ since_pause' = 0
    /\ resume_count' = 0
    /\ pause_writer' = "pause"

HistAfterResumeWrite(w, first) ==
    /\ resume_req' =
          IF w.flag = "clear"
          THEN (IF recording_paused \/ resume_req \in {"set_p", "returned_p"}
                THEN "set_p" ELSE "set")
          ELSE IF first THEN resume_req
          ELSE IF resume_req = "set" THEN "returned"
          ELSE IF resume_req = "set_p" THEN "returned_p"
          ELSE resume_req
    /\ resume_count' = IF first THEN Min(resume_count + 1, 2) ELSE resume_count
    /\ pause_writer' = IF w.flag = "paused" THEN "resume" ELSE pause_writer
    /\ clear_sig' = IF w.flag = "clear" THEN "set"
                    ELSE IF first THEN "unset" ELSE clear_sig

\* ------------------------------------------------------ cognitive pipeline
\* Python's None.
NULL == "<None>"

\* settings.py.  Confidences are kept in tenths: 0.8 is 8.
CONFIDENCE_THRESHOLD == 8
CONFIDENCE_HIGH == 10
CONFIDENCE_MEDIUM == 8
CONFIDENCE_LOW == 5
COMMAND_INTENTS == {"navigate", "stop"}
RESPONSE_INTENTS == {"greeting", "noise", "conversation", "unknown"}
ACTION_INTENTS == {"tracking-person", "go_to_object", "go_to_location"}

\* A number as Python holds it: None, an int or a float, in tenths.
NoneValue == [kind |-> "none", tenths |-> 0]
FloatValue(t) == [kind |-> "float", tenths |-> t]
IntValue(n) == [kind |-> "int", tenths |-> 10 * n]
DEFAULT_DISTANCE == FloatValue(10)
DEFAULT_ANGLE == FloatValue(900)

MoveCommand(direction) ==
    IF direction = "forwards" THEN "FWD"
    ELSE IF direction = "backwards" THEN "BWD"
    ELSE NULL
TurnCommand(direction) ==
    IF direction = "left" THEN "TL"
    ELSE IF direction = "right" THEN "TR"
    ELSE NULL

\* converter.py.  A function that may raise ValueError yields a record:
\* ok, and either the string or the error message.
Returned(str) == [ok |-> TRUE, str |-> str, error |-> ""]
RaisedValueError(msg) == [ok |-> FALSE, str |-> "", error |-> msg]

\* _format_value: str(int(value)) for a float with no fractional part,
\* str(value) otherwise.
FormatValueKeepsDecimal(value) ==
    IF value.kind = "none" THEN RaisedValueError("Value cannot be None")
    ELSE IF value.kind = "float"
    THEN Returned(ToString(value.tenths \div 10) \o "."
                  \o ToString(value.tenths % 10))
    ELSE Returned(ToString(value.tenths \div 10))
FormatValue(value) ==
    IF value.kind = "none" THEN RaisedValueError("Value cannot be None")
    ELSE IF value.kind = "float" /\ value.tenths % 10 # 0
    THEN Returned(ToString(value.tenths \div 10) \o "."
                  \o ToString(value.tenths % 10))
    ELSE Returned(ToString(value.tenths \div 10))

\* normalize_slots, for one slot.
NormalizeSlot(slot) ==
    IF slot.type = "move" /\ slot.distance.kind = "none"
    THEN [slot EXCEPT !.distance = DEFAULT_DISTANCE]
    ELSE IF slot.type = "turn" /\ slot.angle.kind = "none"
    THEN [slot EXCEPT !.angle = DEFAULT_ANGLE]
    ELSE slot

PyStr(x) == IF x = NULL THEN "None" ELSE x

\* slot_to_command
SlotToCommand(slot) ==
    IF slot.type = "move"
    THEN IF MoveCommand(slot.direction) = NULL
         THEN RaisedValueError("Unknown move direction: "
                               \o PyStr(slot.direction))
         ELSE LET v == FormatValue(slot.distance)
              IN  IF v.ok
                  THEN Returned(MoveCommand(slot.direction) \o "," \o v.str)
                  ELSE v
    ELSE IF slot.type = "turn"
    THEN IF TurnCommand(slot.direction) = NULL
         THEN RaisedValueError("Unknown turn direction: "
                               \o PyStr(slot.direction))
         ELSE LET v == FormatValue(slot.angle)
              IN  IF v.ok
                  THEN Returned(TurnCommand(slot.direction) \o "," \o v.str)
                  ELSE v
    ELSE RaisedValueError("Unknown slot type: " \o PyStr(slot.type))

\* ";".join(commands)
RECURSIVE JoinCommands(_)
JoinCommands(cmds) ==
    IF cmds = <<>> THEN ""
    ELSE IF Len(cmds) = 1 THEN cmds[1]
    ELSE cmds[1] \o ";" \o JoinCommands(Tail(cmds))

SlotsToCommandSkipsBad(slots) ==
    LET converted == [i \in 1..Len(slots) |->
                         SlotToCommand(NormalizeSlot(slots[i]))]
        good == SelectSeq(converted, LAMBDA c : c.ok)
    IN  Returned("$SEQ;"
                 \o JoinCommands([i \in 1..Len(good) |-> good[i].str])
                 \o ";STOP\n")

\* slots_to_command: the list comprehension stops at the first slot that
\* raises.
SlotsToCommand(slots) ==
    IF slots = <<>> THEN RaisedValueError("Slots array is empty")
    ELSE LET converted == [i \in 1..Len(slots) |->
                              SlotToCommand(NormalizeSlot(slots[i]))]
             failed == {i \in 1..Len(slots) : ~converted[i].ok}
         IN  IF failed # {}
             THEN converted[CHOOSE i \in failed : \A j \in failed : i <= j]
             ELSE Returned("$SEQ;"
                           \o JoinCommands([i \in 1..Len(slots) |->
                                               converted[i].str])
                           \o ";STOP\n")

ConvertResultKeepsPrefix(result) ==
    [result |-> result, formatted_command |-> "$SEQ;", command_error |-> NULL]

\* convert_result: the result with formatted_command (and command_error).
ConvertResult(result) ==
    IF result.intent = "navigate"
    THEN LET c == SlotsToCommand(result.slots)
         IN  IF c.ok
             THEN [result |-> result, formatted_command |-> c.str,
                   command_error |-> NULL]
             ELSE [result |-> result, formatted_command |-> NULL,
                   command_error |-> c.error]
    ELSE IF result.intent = "stop"
    THEN [result |-> result, formatted_command |-> "$SEQ,STOP\n",
          command_error |-> NULL]
    ELSE [result |-> result, formatted_command |-> NULL,
          command_error |-> NULL]

\* confidence.py.  A result's confidence is a number (in tenths), a string,
\* or missing.
NumConfidence(n) == [kind |-> "num", num |-> n, str |-> ""]
StrConfidence(s) == [kind |-> "str", num |-> 0, str |-> s]
MissingConfidence == [kind |-> "missing", num |-> 0, str |-> ""]

GetConfidenceValue(result) ==
    IF result.confidence.kind = "str"
    THEN IF result.confidence.str = "high" THEN CONFIDENCE_HIGH
         ELSE IF result.confidence.str = "medium" THEN CONFIDENCE_MEDIUM
         ELSE CONFIDENCE_LOW
    ELSE IF result.confidence.kind = "missing" THEN 0
    ELSE result.confidence.num

CheckConfidenceAboveOnly(result, threshold) ==
    [value |-> GetConfidenceValue(result),
     passed |-> GetConfidenceValue(result) > threshold]
CheckConfidenceAlwaysPasses(result, threshold) ==
    [value |-> GetConfidenceValue(result), passed |-> TRUE]
CheckConfidenceWithValue(result, threshold) ==
    [value |-> GetConfidenceValue(result),
     passed |-> GetConfidenceValue(result) >= threshold]

\* router.py.  The phrases are written without their diacritics.
FallbackPhrase == "Xin loi, toi khong chac chan. Ban noi lai duoc khong?"

GetRouteType(intent) ==
    IF intent \in COMMAND_INTENTS THEN "command"
    ELSE IF intent \in RESPONSE_INTENTS THEN "response"
    ELSE IF intent \in ACTION_INTENTS THEN "action"
    ELSE "unknown"

\* templates.py: get_response draws with random.choice from a list chosen by
\* the text and the hour; any phrase of the lists may come back.
GREETING_RESPONSES ==
    {"Chao buoi sang! Minh co the giup gi cho ban?",
     "Minh day! Ban can minh ho tro gi khong?",
     "Chao buoi chieu! Minh san sang giup ban.",
     "Chuc ban buoi toi vui ve! Minh co the lam gi?",
     "Chao ban yeu! Ban can minh lam gi nao?"}
NOISE_RESPONSES ==
    {"Minh nghe chua ro, ban noi lai giup minh nhe?",
     "Xin loi, minh chua nghe ro. Ban lap lai duoc khong?"}
GetResponse(intent) ==
    IF intent = "greeting" THEN GREETING_RESPONSES
    ELSE IF intent = "noise" THEN NOISE_RESPONSES
    ELSE {""}

CommandResponse(intent, result) ==
    IF intent = "navigate"
    THEN "Da nhan lenh di chuyen voi " \o ToString(Len(result.slots))
         \o " hanh dong."
    ELSE IF intent = "stop" THEN "Da dung lai."
    ELSE ""

\* _text_response; canned is what get_response gave.
TextResponse(intent, result, canned) ==
    IF intent \in {"greeting", "noise"} THEN canned
    ELSE IF intent = "conversation"
    THEN (IF result.response = NULL THEN "Toi khong hieu."
          ELSE result.response)
    ELSE "Xin loi, toi khong hieu yeu cau cua ban."

ActionResponse(intent, result) ==
    IF intent = "tracking-person" THEN "Dang theo doi ban."
    ELSE IF intent = "go_to_object"
    THEN "Dang di toi "
         \o (IF result.slot_object = NULL THEN "do" ELSE result.slot_object)
         \o "."
    ELSE IF intent = "go_to_location"
    THEN "Dang di toi "
         \o (IF result.slot_location = NULL THEN "do"
             ELSE result.slot_location)
         \o "."
    ELSE ""

\* A call made by route, as the log keeps it.
Call(fn, arg) == [fn |-> fn, arg |-> arg]

\* What a registered handler does when called: it returns a value or raises.
HandlerRaises(h) == h = "h_raises"
HandlerValue(h, result) == h \o "(" \o result.intent \o ")"

\* route, line 73: the condition under which speak_text is called.
ShouldSpeakWhateverUseTts(use_tts, response) == response # ""
ShouldSpeak(use_tts, response) == use_tts /\ response # ""

\* IntentRouter.route.  handlers is _action_handlers (NULL: no entry),
\* canned the phrase get_response would give.  It yields the RouteDecision,
\* the calls made in order, and whether an exception left route.
Route(result, handlers, threshold, use_tts, canned) ==
    LET intent == IF result.intent = NULL THEN "unknown" ELSE result.intent
        cc == CheckConfidenceWithValue(result, threshold)
        route_type == GetRouteType(intent)
        output == [intent |-> intent, confidence |-> cc.value,
                   passed |-> cc.passed, route |-> route_type,
                   response |-> "", command |-> NULL,
                   action_result |-> NULL]
        converted == ConvertResult(result)
        handler == IF intent \in DOMAIN handlers THEN handlers[intent]
                   ELSE NULL
        routed ==
            IF ~cc.passed
            THEN [out |-> [output EXCEPT !.response = FallbackPhrase],
                  calls |-> <<>>, raised |-> FALSE]
            ELSE IF route_type = "command"
            THEN [out |-> [output EXCEPT
                             !.command = converted.formatted_command,
                             !.response =
                                 CommandResponse(intent, converted.result)],
                  calls |-> <<Call("convert_result", intent)>>,
                  raised |-> FALSE]
            ELSE IF route_type = "response"
            THEN [out |-> [output EXCEPT
                             !.response =
                                 TextResponse(intent, result, canned)],
                  calls |-> <<>>, raised |-> FALSE]
            ELSE IF route_type = "action"
            THEN IF handler = NULL
                 THEN [out |-> [output EXCEPT
                                  !.response =
                                      ActionResponse(intent, result)],
                       calls |-> <<>>, raised |-> FALSE]
                 ELSE IF HandlerRaises(handler)
                 THEN [out |-> output,
                       calls |-> <<Call("handler", handler)>>,
                       raised |-> TRUE]
                 ELSE [out |-> [output EXCEPT
                                  !.action_result =
                                      HandlerValue(handler, result),
                                  !.response =
                                      ActionResponse(intent, result)],
                       calls |-> <<Call("handler", handler)>>,
                       raised |-> FALSE]
            ELSE [out |-> output, calls |-> <<>>, raised |-> FALSE]
    IN  IF ~routed.raised /\ ShouldSpeak(use_tts, routed.out.response)
        THEN [routed EXCEPT
                !.calls = Append(@, Call("speak_text", routed.out.response))]
        ELSE routed

\* No call of route yet.
NoResult ==
    [intent |-> NULL, confidence |-> MissingConfidence, slots |-> <<>>,
     slot_object |-> NULL, slot_location |-> NULL, response |-> NULL,
     raw_text |-> NULL]
NoDecision ==
    [intent |-> NULL, confidence |-> 0, passed |-> FALSE, route |-> NULL,
     response |-> "", command |-> NULL, action_result |-> NULL]

\* ------------------------------------------------------------- initial state
EngineInit ==
    /\ recording_paused = FALSE
    /\ need_clear_buffer = FALSE
    /\ pc = "poll_pause"
    /\ was_paused = FALSE
    /\ ignore_frames_remaining = 0
    /\ pre_buffer = <<>>
    /\ recorded_frames = <<>>
    /\ recording = FALSE
    /\ recording_start_time = NoTime
    /\ speech_end_time = NoTime
    /\ consecutive_silence_frames = 0
    /\ stop_requested = FALSE
    /\ ret = "running"
    /\ stream_active = TRUE
    /\ hw_buffered = FALSE
    /\ ext_pc = "idle"
    /\ nread = 0
    /\ handed = <<>>
    /\ trace = <<>>
    /\ resume_req = "none"
    /\ resume_count = 0
    /\ grace_discarded = 0
    /\ has_reset = FALSE
    /\ since_final = NoTime
    /\ pause_writer = "init"
    /\ clear_sig = "unset"
    /\ last_read = NoRead
    /\ pyaudio_instance = "live"
    /\ opened_on = "live"
    /\ since_pause = 0
    /\ fin_cause = "none"
    /\ enh_outcome = "none"
    /\ cb_called = 0
    /\ cb_args = <<>>
    /\ cb_answer = "none"

\* --------------------------------------------------- the second thread
\* pause_recording() called from another thread.
ExtPause ==
    /\ UNCHANGED pipeVars
    /\ UNCHANGED clsVars
    /\ UNCHANGED finVars
    /\ UNCHANGED audioVars
    /\ UNCHANGED convVars
    /\ ext_pc = "idle"
    /\ WriteFlags(PauseWrite)
    /\ HistAfterPause
    /\ UNCHANGED <<engineVars, ext_pc, nread, handed, trace, resume_req,
                   grace_discarded, has_reset, since_final, clear_sig>>

\* resume_recording() called from another thread: its first write ...
ExtResumeFirst ==
    /\ UNCHANGED pipeVars
    /\ UNCHANGED clsVars
    /\ UNCHANGED finVars
    /\ UNCHANGED audioVars
    /\ UNCHANGED raceVars
    /\ UNCHANGED convVars
    /\ ext_pc = "idle"
    /\ WriteFlags(ResumeFirstWrite)
    /\ HistAfterResumeWrite(ResumeFirstWrite, TRUE)
    /\ ext_pc' = "resuming"
    /\ UNCHANGED <<engineVars, nread, handed, trace, grace_discarded,
                   has_reset, since_final>>

\* ... and its second write, after which it returns.
ExtResumeSecond ==
    /\ UNCHANGED pipeVars
    /\ UNCHANGED clsVars
    /\ UNCHANGED finVars
    /\ UNCHANGED audioVars
    /\ UNCHANGED raceVars
    /\ UNCHANGED convVars
    /\ ext_pc = "resuming"
    /\ WriteFlags(ResumeSecondWrite)
    /\ HistAfterResumeWrite(ResumeSecondWrite, FALSE)
    /\ ext_pc' = "idle"
    /\ UNCHANGED <<engineVars, nread, handed, trace, grace_discarded,
                   has_reset, since_final>>

\* ------------------------------------------------------------- the engine
\* Lines 128-156: the reset performed when need_reset holds.  The stream is
\* restarted and what its buffer holds is flushed.
FullReset ==
    /\ was_paused' = FALSE
    /\ pre_buffer' = <<>>
    /\ recorded_frames' = <<>>
    /\ recording' = FALSE
    /\ recording_start_time' = NoTime
    /\ consecutive_silence_frames' = 0
    /\ speech_end_time' = NoTime
    /\ ignore_frames_remaining' = ResetGrace(ignore_frames_remaining)
    /\ stream_active' = TRUE
    /\ hw_buffered' = FALSE
    /\ pc' = "poll_pause"
    /\ trace' = <<>>
    /\ handed' = <<>>
    /\ resume_req' = "none"
    /\ grace_discarded' = 0
    /\ has_reset' = TRUE
    /\ last_read' = NoRead
    /\ NoFinalization
    /\ UNCHANGED audioVars
    /\ UNCHANGED raceVars
    /\ UNCHANGED <<stop_requested, ret, ext_pc, nread, resume_count,
                   since_final, pause_writer>>

\* Lines 108-119: PauseFlag is set; stop the stream, sleep, poll again.
\* is_recording_paused(): the value of PauseFlag at the moment of the poll.
IsRecordingPausedNever(flag) == FALSE
IsRecordingPaused(flag) == flag

PausedSleep ==
    /\ UNCHANGED pipeVars
    /\ UNCHANGED clsVars
    /\ UNCHANGED finVars
    /\ UNCHANGED audioVars
    /\ UNCHANGED raceVars
    /\ UNCHANGED convVars
    /\ pc = "poll_pause"
    /\ IsRecordingPaused(recording_paused)
    /\ stream_active' = IF stream_active THEN StopStream(stream_active)
                        ELSE stream_active
    /\ was_paused' = TRUE
    /\ UNCHANGED <<flagVars, pc, ignore_frames_remaining, pre_buffer,
                   recorded_frames, recording, recording_start_time,
                   speech_end_time, consecutive_silence_frames,
                   stop_requested, ret, hw_buffered, ext_pc, histVars>>

\* Line 108: PauseFlag is clear.
PollNotPaused ==
    /\ UNCHANGED pipeVars
    /\ UNCHANGED clsVars
    /\ UNCHANGED finVars
    /\ UNCHANGED audioVars
    /\ UNCHANGED raceVars
    /\ UNCHANGED convVars
    /\ pc = "poll_pause"
    /\ ~IsRecordingPaused(recording_paused)
    /\ pc' = "poll_clear"
    /\ UNCHANGED <<flagVars, was_paused, ignore_frames_remaining, pre_buffer,
                   recorded_frames, recording, recording_start_time,
                   speech_end_time, consecutive_silence_frames,
                   stop_requested, ret, stream_active, hw_buffered, ext_pc,
                   histVars>>

\* should_clear_buffer(), line 34: _need_clear_buffer.is_set() is true.
ClearIsSet ==
    /\ UNCHANGED pipeVars
    /\ UNCHANGED clsVars
    /\ UNCHANGED finVars
    /\ UNCHANGED audioVars
    /\ UNCHANGED raceVars
    /\ UNCHANGED convVars
    /\ pc = "poll_clear"
    /\ need_clear_buffer
    /\ pc' = "clear_clear"
    /\ UNCHANGED <<flagVars, was_paused, ignore_frames_remaining, pre_buffer,
                   recorded_frames, recording, recording_start_time,
                   speech_end_time, consecutive_silence_frames,
                   stop_requested, ret, stream_active, hw_buffered, ext_pc,
                   histVars>>

\* should_clear_buffer(), line 35: _need_clear_buffer.clear(); it returns
\* True, so need_reset holds and the reset follows.
ClearConsume ==
    /\ UNCHANGED pipeVars
    /\ UNCHANGED clsVars
    /\ UNCHANGED convVars
    /\ pc = "clear_clear"
    /\ need_clear_buffer' = FALSE
    /\ clear_sig' = IF clear_sig = "set" THEN "consumed" ELSE clear_sig
    /\ FullReset
    /\ UNCHANGED recording_paused

\* should_clear_buffer() returns False, but was_paused holds: reset.
ClearNotSetReset ==
    /\ UNCHANGED pipeVars
    /\ UNCHANGED clsVars
    /\ UNCHANGED convVars
    /\ pc = "poll_clear"
    /\ ~need_clear_buffer
    /\ was_paused
    /\ FullReset
    /\ UNCHANGED <<flagVars, clear_sig>>

\* should_clear_buffer() returns False and was_paused is false: go on to read.
ClearNotSetRead ==
    /\ UNCHANGED pipeVars
    /\ UNCHANGED clsVars
    /\ UNCHANGED finVars
    /\ UNCHANGED audioVars
    /\ UNCHANGED raceVars
    /\ UNCHANGED convVars
    /\ pc = "poll_clear"
    /\ ~need_clear_buffer
    /\ ~was_paused
    /\ pc' = "read"
    /\ UNCHANGED <<flagVars, was_paused, ignore_frames_remaining, pre_buffer,
                   recorded_frames, recording, recording_start_time,
                   speech_end_time, consecutive_silence_frames,
                   stop_requested, ret, stream_active, hw_buffered, ext_pc,
                   histVars>>

\* get_shared_pyaudio_instance: the module's instance is created once and
\* then returned as it is.
GetSharedPyaudioInstance(instance) == instance

\* The finally clause of run_recording_loop, lines 251-255: pa.terminate() on
\* the handle init_audio_stream returned, which is the shared one; the
\* module keeps referring to it.
FinallyTerminate ==
    /\ pyaudio_instance' = IF pc' = "done" THEN "terminated"
                           ELSE pyaudio_instance
    /\ UNCHANGED opened_on

\* Time passes while stream.read blocks (or the loop sleeps after an error).
Tick ==
    /\ recording_start_time' = Age(recording_start_time, MAX_RECORDING_TICKS)
    /\ speech_end_time' = Age(speech_end_time, SILENCE_EXIT_TICKS)

SinceFinalAfter(speech) ==
    IF speech THEN NoTime ELSE Age(since_final, SILENCE_EXIT_TICKS)

\* Lines 159-164: stream.read raises; sleep and poll again.
ReadError ==
    /\ UNCHANGED pipeVars
    /\ UNCHANGED audioVars
    /\ UNCHANGED raceVars
    /\ UNCHANGED clsVars
    /\ UNCHANGED convVars
    /\ pc = "read"
    /\ Tick
    /\ pc' = "poll_pause"
    /\ since_final' = SinceFinalAfter(FALSE)
    /\ last_read' = FailedRead
    /\ UNCHANGED <<fin_cause, enh_outcome, cb_called, cb_args, cb_answer>>
    /\ UNCHANGED <<flagVars, was_paused, ignore_frames_remaining, pre_buffer,
                   recorded_frames, recording, consecutive_silence_frames,
                   stop_requested, ret, stream_active, hw_buffered, ext_pc,
                   nread, handed, trace, resume_req, resume_count,
                   grace_discarded, has_reset, pause_writer, clear_sig>>

\* Lines 166-167: a frame of the wrong byte length is skipped.
ReadMalformed ==
    /\ UNCHANGED pipeVars
    /\ UNCHANGED audioVars
    /\ UNCHANGED raceVars
    /\ UNCHANGED clsVars
    /\ UNCHANGED convVars
    /\ pc = "read"
    /\ \E len \in FrameLengths :
          ~WellFormed(len) /\ last_read' = FrameRead(len)
    /\ Tick
    /\ hw_buffered' = FALSE
    /\ pc' = "poll_pause"
    /\ since_final' = SinceFinalAfter(FALSE)
    /\ UNCHANGED <<fin_cause, enh_outcome, cb_called, cb_args, cb_answer>>
    /\ UNCHANGED <<flagVars, was_paused, ignore_frames_remaining, pre_buffer,
                   recorded_frames, recording, consecutive_silence_frames,
                   stop_requested, ret, stream_active, ext_pc, nread, handed,
                   trace, resume_req, resume_count, grace_discarded,
                   has_reset, pause_writer, clear_sig>>

\* Lines 170-172: inside the grace window the frame is dropped before the
\* VAD is asked about it.
ReadGrace ==
    /\ UNCHANGED pipeVars
    /\ UNCHANGED audioVars
    /\ FrameTakenSincePause
    /\ UNCHANGED clsVars
    /\ UNCHANGED convVars
    /\ pc = "read"
    /\ nread < MaxFrames
    /\ \E len \in FrameLengths :
          WellFormed(len) /\ last_read' = FrameRead(len)
    /\ UNCHANGED <<fin_cause, enh_outcome, cb_called, cb_args, cb_answer>>
    /\ ignore_frames_remaining > 0
    /\ \E speech \in BOOLEAN :
          since_final' = SinceFinalAfter(speech)
    /\ Tick
    /\ ignore_frames_remaining' = ignore_frames_remaining - 1
    /\ grace_discarded' = grace_discarded + 1
    /\ nread' = nread + 1
    /\ hw_buffered' = FALSE
    /\ resume_count' = 0
    /\ pc' = "poll_pause"
    /\ UNCHANGED <<flagVars, was_paused, pre_buffer, recorded_frames,
                   recording, consecutive_silence_frames, stop_requested,
                   ret, stream_active, ext_pc, handed, trace, resume_req,
                   has_reset, pause_writer, clear_sig>>

\* Lines 174-236: a well-formed frame outside the grace window.
ProcessFrame(f) ==
    LET now_start == Age(recording_start_time, MAX_RECORDING_TICKS)
        now_end == Age(speech_end_time, SILENCE_EXIT_TICKS)
        \* 178-180: while not recording every frame goes to the pre-buffer
        buf1 == IF ~recording THEN DequeAppend(pre_buffer, f) ELSE pre_buffer
        \* 184-190: speech while not recording starts the recording
        starts == f.speech /\ ~recording
        rec1 == IF starts THEN ExtendWithPreBuffer(recorded_frames, buf1)
                ELSE recorded_frames
        start1 == IF starts THEN 0 ELSE now_start
        end1 == IF starts THEN NoTime ELSE now_end
        recording1 == recording \/ f.speech
        \* 183, 212
        silence1 == SilenceRun(f.speech, recording,
                               consecutive_silence_frames)
        \* 192-207: the max-duration cutoff, tested on speech frames only
        cutoff == f.speech /\ MaxDurationExceeded(start1)
        \* 213: the silence threshold
        silence_end == ~f.speech /\ recording
                       /\ silence1 >= SILENCE_FRAMES_THRESHOLD
        finalize == cutoff \/ silence_end
        \* 209
        rec2 == IF f.speech /\ ~cutoff THEN Append(rec1, f) ELSE rec1
        \* 232-236
        idle_exit == ~finalize /\ ~recording1 /\ end1 # NoTime
                     /\ end1 > SILENCE_EXIT_TICKS
    IN  /\ pre_buffer' = buf1
        /\ recorded_frames' = rec2
        /\ recording' = recording1
        /\ recording_start_time' = start1
        /\ consecutive_silence_frames' = silence1
        /\ trace' = Append(trace, f)
        /\ IF finalize
           THEN \* _process_and_reset, lines 68 and 72
                /\ speech_end_time' = 0
                /\ WriteFlags(PauseWrite)
                /\ HistAfterPause
                /\ since_final' = 0
                /\ pc' = "fin_begin"
                /\ fin_cause' = IF cutoff THEN "cutoff" ELSE "silence"
                /\ UNCHANGED <<ret, stream_active, enh_outcome, cb_called,
                               cb_args, cb_answer>>
           ELSE /\ speech_end_time' = end1
                /\ FrameTakenSincePause
                /\ since_final' = SinceFinalAfter(f.speech)
                /\ resume_count' = 0
                /\ UNCHANGED <<flagVars, pause_writer, fin_cause,
                               enh_outcome, cb_called, cb_args, cb_answer>>
                /\ IF idle_exit
                   THEN \* return None; the finally clause closes the stream
                        /\ pc' = "done"
                        /\ ret' = "none"
                        /\ stream_active' = FALSE
                   ELSE /\ pc' = "poll_pause"
                        /\ UNCHANGED <<ret, stream_active>>

ReadProcess ==
    /\ UNCHANGED pipeVars
    /\ UNCHANGED clsVars
    /\ UNCHANGED convVars
    /\ pc = "read"
    /\ nread < MaxFrames
    /\ \E len \in FrameLengths :
          WellFormed(len) /\ last_read' = FrameRead(len)
    /\ ignore_frames_remaining = 0
    /\ \E speech \in BOOLEAN :
          ProcessFrame(Frame(nread + 1, speech, hw_buffered))
    /\ nread' = nread + 1
    /\ hw_buffered' = FALSE
    /\ FinallyTerminate
    /\ UNCHANGED <<was_paused, ignore_frames_remaining, stop_requested,
                   ext_pc, handed, resume_req, grace_discarded, has_reset,
                   clear_sig>>

\* Audio that reaches the microphone while the engine is inside
\* _process_and_reset is captured only if the stream is still active.
Finalizing == pc \in {"fin_begin", "enhance", "callback", "cb_resume"}

CaptureWhileFinalizing ==
    /\ UNCHANGED pipeVars
    /\ UNCHANGED clsVars
    /\ UNCHANGED finVars
    /\ UNCHANGED audioVars
    /\ UNCHANGED raceVars
    /\ UNCHANGED convVars
    /\ Finalizing
    /\ stream_active
    /\ ~hw_buffered
    /\ hw_buffered' = TRUE
    /\ UNCHANGED <<flagVars, pc, was_paused, ignore_frames_remaining,
                   pre_buffer, recorded_frames, recording,
                   recording_start_time, speech_end_time,
                   consecutive_silence_frames, stop_requested, ret,
                   stream_active, ext_pc, histVars>>

\* _process_and_reset, lines 73-78: stop the stream before any processing.
FinStopStream ==
    /\ UNCHANGED pipeVars
    /\ UNCHANGED clsVars
    /\ UNCHANGED finVars
    /\ UNCHANGED audioVars
    /\ UNCHANGED raceVars
    /\ UNCHANGED convVars
    /\ pc = "fin_begin"
    /\ stream_active' = IF stream_active THEN StopStream(stream_active)
                        ELSE stream_active
    /\ pc' = "enhance"
    /\ UNCHANGED <<flagVars, was_paused, ignore_frames_remaining, pre_buffer,
                   recorded_frames, recording, recording_start_time,
                   speech_end_time, consecutive_silence_frames,
                   stop_requested, ret, hw_buffered, ext_pc, histVars>>

\* _reset_recording_state (58-64) in the finally clause of
\* _process_and_reset, then lines 203-207 / 226-230 of the loop.
AfterProcessAndReset(stop) ==
    /\ pre_buffer' = <<>>
    /\ recorded_frames' = <<>>
    /\ recording' = FALSE
    /\ recording_start_time' = NoTime
    /\ consecutive_silence_frames' = 0
    /\ stop_requested' = stop
    /\ IF stop
       THEN \* return last_result; the finally clause closes the stream
            /\ pc' = "done"
            /\ ret' = "result"
            /\ stream_active' = FALSE
            /\ UNCHANGED was_paused
       ELSE /\ pc' = "poll_pause"
            /\ was_paused' = TRUE
            /\ UNCHANGED <<ret, stream_active>>

\* _process_and_reset, lines 80-100, from the try on.  enhance_utterance
\* either raises or returns its tuple; the tuple is unpacked into
\* UnpackTargets names, which raises ValueError unless the sizes agree.  Any
\* exception is logged by the except clause, and the callback is not reached.
\* on_utterance (MicDriverNode._on_utterance) ends with resume_recording()
\* and returns False.
ProcessAndResetTail ==
    /\ UNCHANGED pipeVars
    /\ UNCHANGED clsVars
    /\ UNCHANGED convVars
    /\ pc \in {"enhance", "callback", "cb_resume"}
    /\ CASE pc = "enhance" ->
              IF recorded_frames = <<>>
              THEN /\ AfterProcessAndReset(FALSE)
                   /\ UNCHANGED <<flagVars, handed, resume_req, resume_count,
                                  pause_writer, clear_sig, enh_outcome,
                                  cb_called, cb_args, cb_answer>>
              ELSE /\ handed' = recorded_frames
                   /\ \E outcome \in {"raises", "returns"} :
                         /\ enh_outcome' = IF outcome = "returns"
                                           THEN "returned" ELSE "raised"
                         /\ IF outcome = "returns"
                               /\ EnhanceReturnArity = UnpackTargets
                            THEN /\ pc' = "callback"
                                 /\ cb_called' = cb_called + 1
                                 /\ cb_args' = SubSeq(EnhanceResult, 1,
                                                      UnpackTargets)
                                 /\ UNCHANGED <<pre_buffer, recorded_frames,
                                                recording,
                                                recording_start_time,
                                                consecutive_silence_frames,
                                                stop_requested, ret,
                                                stream_active, was_paused>>
                            ELSE /\ AfterProcessAndReset(FALSE)
                                 /\ UNCHANGED <<cb_called, cb_args>>
                   /\ UNCHANGED <<flagVars, resume_req, resume_count,
                                  pause_writer, clear_sig, cb_answer>>
         [] pc = "callback" ->
              /\ WriteFlags(ResumeFirstWrite)
              /\ HistAfterResumeWrite(ResumeFirstWrite, TRUE)
              /\ pc' = "cb_resume"
              /\ UNCHANGED <<pre_buffer, recorded_frames, recording,
                             recording_start_time,
                             consecutive_silence_frames, stop_requested, ret,
                             stream_active, was_paused, handed, enh_outcome,
                             cb_called, cb_args, cb_answer>>
         [] pc = "cb_resume" ->
              /\ WriteFlags(ResumeSecondWrite)
              /\ HistAfterResumeWrite(ResumeSecondWrite, FALSE)
              /\ AfterProcessAndReset(FALSE)
              /\ cb_answer' = "false"
              /\ UNCHANGED <<handed, enh_outcome, cb_called, cb_args>>
    /\ FinallyTerminate
    /\ UNCHANGED raceVars
    /\ UNCHANGED <<ignore_frames_remaining, speech_end_time, hw_buffered,
                   ext_pc, nread, trace, grace_discarded, has_reset,
                   since_final, last_read, fin_cause>>

\* KeyboardInterrupt raised in the engine thread while it is suspended: in
\* the paused sleep (118), in stream.read or the sleep after a read error
\* (160-163), in enhance_utterance (86) or in on_utterance (95).  Inside
\* _process_and_reset the exception passes "except Exception" (97) and the
\* finally clause resets the recording state (100); inside on_utterance the
\* finally clause of _on_utterance calls resume_recording() unless the
\* interrupt arrives during its own sleep.  Line 238 catches it, the loop
\* returns None and the outer finally clause closes the stream (243-255).
SuspendedAt ==
    CASE pc = "poll_pause" /\ recording_paused -> "sleep"
      [] pc = "read" -> "read"
      [] pc = "enhance" /\ recorded_frames # <<>> -> "enhance"
      [] pc \in {"callback", "cb_resume"} -> "callback"
      [] OTHER -> "none"

Interrupt ==
    /\ UNCHANGED pipeVars
    /\ UNCHANGED clsVars
    /\ UNCHANGED convVars
    /\ UNCHANGED finVars
    /\ ret = "running"
    /\ SuspendedAt # "none"
    /\ IF SuspendedAt = "callback"
       THEN \E resumed \in BOOLEAN :
               /\ need_clear_buffer' = (need_clear_buffer \/ resumed
                                            \/ pc = "cb_resume")
               /\ recording_paused' = (recording_paused /\ ~resumed)
               /\ resume_req' = IF resumed THEN "returned" ELSE resume_req
               /\ pause_writer' = IF resumed THEN "resume" ELSE pause_writer
               /\ clear_sig' = IF resumed \/ pc = "cb_resume" THEN "set"
                               ELSE clear_sig
       ELSE UNCHANGED <<flagVars, resume_req, pause_writer, clear_sig>>
    /\ IF SuspendedAt \in {"enhance", "callback"}
       THEN /\ pre_buffer' = <<>>
            /\ recorded_frames' = <<>>
            /\ recording' = FALSE
            /\ recording_start_time' = NoTime
            /\ consecutive_silence_frames' = 0
       ELSE UNCHANGED <<pre_buffer, recorded_frames, recording,
                        recording_start_time, consecutive_silence_frames>>
    /\ pc' = "done"
    /\ ret' = "interrupted"
    /\ stream_active' = FALSE
    /\ FinallyTerminate
    /\ UNCHANGED raceVars
    /\ UNCHANGED <<was_paused, ignore_frames_remaining, speech_end_time,
                   stop_requested, hw_buffered, ext_pc, nread, handed, trace,
                   resume_count, grace_discarded, has_reset, since_final>>

\* What pa.open does on the handle init_audio_stream got (audio.py 46-59):
\* on a live handle the stream opens; on a handle that pa.terminate() has
\* released the outcome depends on whether PortAudio is still initialised,
\* so the stream may open or the call may raise.
OpenOutcomes(handle) ==
    IF handle = "live" THEN {"opens"} ELSE {"opens", "raises"}

\* mic_driver_node.py, MicDriverNode.run, lines 52-58: when
\* run_recording_loop has returned it is called again; its locals start as
\* at lines 48-56 and 103-104 and init_audio_stream opens a new stream on the
\* shared handle.  The two flags belong to the module and keep their values.
\* When the stream cannot be opened, init_audio_stream raises RuntimeError,
\* which leaves run_recording_loop (line 46) and MicDriverNode.run (71).
StartSession ==
    /\ UNCHANGED pipeVars
    /\ UNCHANGED clsVars
    /\ UNCHANGED convVars
    /\ pc = "done"
    /\ ret # "raised"
    /\ opened_on' = GetSharedPyaudioInstance(pyaudio_instance)
    /\ UNCHANGED raceVars
    /\ UNCHANGED pyaudio_instance
    /\ \E outcome \in OpenOutcomes(GetSharedPyaudioInstance(pyaudio_instance)) :
          IF outcome = "opens"
          THEN /\ pc' = "poll_pause"
               /\ was_paused' = FALSE
               /\ ignore_frames_remaining' = 0
               /\ pre_buffer' = <<>>
               /\ recorded_frames' = <<>>
               /\ recording' = FALSE
               /\ recording_start_time' = NoTime
               /\ speech_end_time' = NoTime
               /\ consecutive_silence_frames' = 0
               /\ stop_requested' = FALSE
               /\ ret' = "running"
               /\ stream_active' = TRUE
               /\ hw_buffered' = FALSE
               /\ trace' = <<>>
               /\ handed' = <<>>
               /\ grace_discarded' = 0
               /\ has_reset' = FALSE
               /\ since_final' = NoTime
               /\ last_read' = NoRead
               /\ NoFinalization
          ELSE /\ ret' = "raised"
               /\ UNCHANGED <<pc, was_paused, ignore_frames_remaining,
                              pre_buffer, recorded_frames, recording,
                              recording_start_time, speech_end_time,
                              consecutive_silence_frames, stop_requested,
                              stream_active, hw_buffered, trace, handed,
                              grace_discarded, has_reset, since_final,
                              finVars>>
    /\ UNCHANGED <<flagVars, ext_pc, nread, resume_req, resume_count,
                   pause_writer, clear_sig>>

\* --------------------------------------------- the utterance callback
\* Inputs of the pipeline model.
ConfidenceSamples ==
    {NumConfidence(n) : n \in {0, 5, 7, 8, 9, 10}}
    \cup {StrConfidence(s) : s \in {"high", "medium", "low"}}
    \cup {MissingConfidence}
Slot(type, direction, distance, angle) ==
    [type |-> type, direction |-> direction, distance |-> distance,
     angle |-> angle]
SlotsSamples ==
    {<<>>,
     <<Slot("move", "forwards", FloatValue(20), NoneValue)>>,
     <<Slot("move", "backwards", NoneValue, NoneValue),
       Slot("turn", "left", NoneValue, FloatValue(455))>>,
     <<Slot("turn", "right", NoneValue, IntValue(90)),
       Slot("move", "up", FloatValue(10), NoneValue)>>,
     <<Slot("jump", NULL, NoneValue, NoneValue)>>}
Result(intent, confidence, slots, object, location, response) ==
    [intent |-> intent, confidence |-> confidence, slots |-> slots,
     slot_object |-> object, slot_location |-> location,
     response |-> response, raw_text |-> NULL]
Results ==
    {Result("navigate", c, s, NULL, NULL, NULL) :
        c \in ConfidenceSamples, s \in SlotsSamples}
    \cup {Result(i, c, <<>>, NULL, NULL, NULL) :
            i \in {"stop", "greeting", "noise", "unknown", "dance",
                   "tracking-person", NULL},
            c \in ConfidenceSamples}
    \cup {Result("conversation", c, <<>>, NULL, NULL, r) :
            c \in ConfidenceSamples, r \in {NULL, "", " ", "Da, toi day."}}
    \cup {Result("go_to_object", c, <<>>, o, NULL, NULL) :
            c \in ConfidenceSamples, o \in {NULL, "cai ban"}}
    \cup {Result("go_to_location", c, <<>>, NULL, l, NULL) :
            c \in ConfidenceSamples, l \in {NULL, "bep"}}
Thresholds == {CONFIDENCE_THRESHOLD, CONFIDENCE_THRESHOLD + 1}
RegisterNames == {"tracking-person", "navigate"}
Handlers == {"h1", "h2", "h_raises"}

\* The callback is not running and route has not been called.
PipelineIdle ==
    /\ cb_pc = "idle"
    /\ cb_stt = "none"
    /\ cb_proc = "none"
    /\ cb_speak = "none"
    /\ cb_ret = "none"
    /\ action_handlers = [n \in RegisterNames |-> NULL]
    /\ reg_log = <<>>
    /\ route_input = NoResult
    /\ route_use_tts = TRUE
    /\ route_output = NoDecision
    /\ calls = <<>>

\* Most register_action calls in one behaviour.
MaxRegistrations == 2

\* self._action_handlers[intent] = handler
SetItemIfAbsent(dict, key, value) ==
    IF dict[key] = NULL THEN [dict EXCEPT ![key] = value] ELSE dict
SetItem(dict, key, value) == [dict EXCEPT ![key] = value]

\* IntentRouter.register_action
RegisterAction ==
    /\ UNCHANGED clsVars
    /\ UNCHANGED finVars
    /\ UNCHANGED audioVars
    /\ UNCHANGED raceVars
    /\ UNCHANGED convVars
    /\ cb_pc \in {"idle", "done"}
    /\ Len(reg_log) < MaxRegistrations
    /\ \E n \in RegisterNames, h \in Handlers :
          /\ action_handlers[n] # h
          /\ action_handlers' = SetItem(action_handlers, n, h)
          /\ reg_log' = Append(reg_log, <<n, h>>)
    /\ UNCHANGED <<flagVars, engineVars, ext_pc, histVars, cb_pc, cb_stt,
                   cb_proc, cb_speak, cb_ret, router_threshold, route_input, route_use_tts,
                   route_output, calls>>

\* _process_and_reset pauses recording and, having an enhanced utterance,
\* calls on_utterance(enhanced_audio, enhanced_sr).
InvokeCallback ==
    /\ UNCHANGED clsVars
    /\ UNCHANGED finVars
    /\ UNCHANGED audioVars
    /\ UNCHANGED raceVars
    /\ UNCHANGED convVars
    /\ cb_pc \in {"idle", "routed", "done"}
    /\ WriteFlags(PauseWrite)
    /\ cb_pc' = "stt"
    /\ cb_stt' = "none"
    /\ cb_proc' = "none"
    /\ cb_speak' = "none"
    /\ cb_ret' = "none"
    /\ route_input' = NoResult
    /\ route_use_tts' = TRUE
    /\ route_output' = NoDecision
    /\ calls' = <<>>
    /\ UNCHANGED <<engineVars, ext_pc, histVars, router_threshold,
                   action_handlers, reg_log>>

\* _on_utterance: speech_recognition.process_audio gives a text, gives
\* nothing ("return False"), or raises; it is outside the inner try, so an
\* exception leaves the callback, through the finally clause.
SpeechToText ==
    /\ UNCHANGED clsVars
    /\ UNCHANGED finVars
    /\ UNCHANGED audioVars
    /\ UNCHANGED raceVars
    /\ UNCHANGED convVars
    /\ cb_pc = "stt"
    /\ \E out \in {"text", "empty", "raises"} :
          /\ cb_stt' = out
          /\ cb_pc' = IF out = "text" THEN "process" ELSE "finally"
          /\ cb_ret' = IF out = "empty" THEN "False"
                       ELSE IF out = "raises" THEN "raised"
                       ELSE cb_ret
    /\ UNCHANGED <<flagVars, engineVars, ext_pc, histVars, cb_proc, cb_speak,
                   router_threshold, action_handlers, reg_log, route_input, route_use_tts,
                   route_output, calls>>

\* Where _on_utterance goes on after the inner try: "except Exception" has
\* caught what process_input raised, "return False" runs the finally clause.
ProcessInputUncaught(raised) == IF raised THEN "done" ELSE "finally"
AfterProcessInput(raised) == "finally"

\* speak_text: False for a blank text, else the service's answer; it
\* catches every exception.
SpeakOutcomes(sent) ==
    IF sent = <<>> THEN {"none"}
    ELSE IF sent[1].arg = " " THEN {"failed"}
    ELSE {"ok", "failed"}

\* _on_utterance, the inner try: process_input(text, use_tts=True), that is
\* classify_intent (which may raise on a remote failure) and then route.
ProcessInput ==
    /\ UNCHANGED clsVars
    /\ UNCHANGED finVars
    /\ UNCHANGED audioVars
    /\ UNCHANGED raceVars
    /\ UNCHANGED convVars
    /\ cb_pc = "process"
    /\ \/ /\ cb_proc' = "classify_raises"
          /\ cb_pc' = AfterProcessInput(TRUE)
          /\ UNCHANGED <<route_input, route_use_tts, route_output, calls, cb_speak>>
       \/ \E r \in Results :
          \E canned \in GetResponse(IF r.intent = NULL THEN "unknown"
                                    ELSE r.intent) :
             LET rt == Route(r, action_handlers, router_threshold, TRUE,
                             canned)
                 sent == SelectSeq(rt.calls, LAMBDA c : c.fn = "speak_text")
             IN  /\ route_input' = r
                 /\ route_use_tts' = TRUE
                 /\ route_output' = IF rt.raised THEN NoDecision ELSE rt.out
                 /\ calls' = rt.calls
                 /\ cb_speak' \in SpeakOutcomes(sent)
                 /\ cb_proc' = IF rt.raised THEN "route_raises" ELSE "ok"
                 /\ cb_pc' = AfterProcessInput(rt.raised)
    /\ cb_ret' = "False"
    /\ UNCHANGED <<flagVars, engineVars, ext_pc, histVars, cb_stt,
                   router_threshold, action_handlers, reg_log>>

\* The finally clause: time.sleep(MIC_RESUME_DELAY), then resume_recording(),
\* whose first write ...
FinallyResumeFirst ==
    /\ UNCHANGED clsVars
    /\ UNCHANGED finVars
    /\ UNCHANGED audioVars
    /\ UNCHANGED raceVars
    /\ UNCHANGED convVars
    /\ cb_pc = "finally"
    /\ WriteFlags(ResumeFirstWrite)
    /\ cb_pc' = "finally_resume"
    /\ UNCHANGED <<engineVars, ext_pc, histVars, cb_stt, cb_proc, cb_speak,
                   cb_ret, router_threshold, action_handlers, reg_log, route_input, route_use_tts,
                   route_output, calls>>

\* ... and second write; the callback is over.
FinallyResumeSecond ==
    /\ UNCHANGED clsVars
    /\ UNCHANGED finVars
    /\ UNCHANGED audioVars
    /\ UNCHANGED raceVars
    /\ UNCHANGED convVars
    /\ cb_pc = "finally_resume"
    /\ WriteFlags(ResumeSecondWrite)
    /\ calls' = Append(calls, Call("resume_recording", ""))
    /\ cb_pc' = "done"
    /\ UNCHANGED <<engineVars, ext_pc, histVars, cb_stt, cb_proc, cb_speak,
                   cb_ret, router_threshold, action_handlers, reg_log, route_input, route_use_tts,
                   route_output>>

\* route called directly, with either value of use_tts.
RouteDirect ==
    /\ UNCHANGED clsVars
    /\ UNCHANGED finVars
    /\ UNCHANGED audioVars
    /\ UNCHANGED raceVars
    /\ UNCHANGED convVars
    /\ cb_pc = "idle"
    /\ \E r \in Results, use_tts \in BOOLEAN :
       \E canned \in GetResponse(IF r.intent = NULL THEN "unknown"
                                 ELSE r.intent) :
          LET rt == Route(r, action_handlers, router_threshold, use_tts,
                          canned)
              sent == SelectSeq(rt.calls, LAMBDA c : c.fn = "speak_text")
          IN  /\ route_input' = r
              /\ route_use_tts' = use_tts
              /\ route_output' = IF rt.raised THEN NoDecision ELSE rt.out
              /\ calls' = rt.calls
              /\ cb_speak' \in SpeakOutcomes(sent)
    /\ cb_pc' = "routed"
    /\ UNCHANGED <<flagVars, engineVars, ext_pc, histVars, cb_stt, cb_proc,
                   cb_ret, router_threshold, action_handlers, reg_log>>

\* ------------------------------------------------ the converter on its own
\* Longest slot list given to the converter.
MaxSlots == 2

\* Slots: move and turn with directions in and out of their tables, values
\* absent, whole and fractional, float and int; other and missing types.
SlotUniverse ==
    {Slot("move", d, v, NoneValue) :
        d \in {"forwards", "backwards", "left", NULL},
        v \in {NoneValue, FloatValue(20), FloatValue(25), IntValue(3)}}
    \cup {Slot("turn", d, NoneValue, v) :
            d \in {"left", "right", "up", NULL},
            v \in {NoneValue, FloatValue(900), FloatValue(455), IntValue(45)}}
    \cup {Slot("turn", "left", FloatValue(20), NoneValue),
          Slot("jump", "forwards", FloatValue(20), NoneValue),
          Slot(NULL, NULL, NoneValue, NoneValue)}
SlotLists == UNION {[1..n -> SlotUniverse] : n \in 0..MaxSlots}

NotCalled == [ok |-> FALSE, str |-> "", error |-> "<not called>"]
NoConversion ==
    [result |-> NoResult, formatted_command |-> NULL, command_error |-> NULL]

ConverterIdle ==
    /\ conv_pc = "idle"
    /\ conv_slots = <<>>
    /\ conv_out = NotCalled
    /\ conv_result = NoConversion

\* slots_to_command(conv_slots)
CallSlotsToCommand ==
    /\ UNCHANGED clsVars
    /\ UNCHANGED finVars
    /\ UNCHANGED audioVars
    /\ UNCHANGED raceVars
    /\ conv_pc = "input"
    /\ conv_out' = SlotsToCommand(conv_slots)
    /\ conv_pc' = "slots_to_command"
    /\ UNCHANGED <<conv_slots, conv_result, flagVars, engineVars, ext_pc,
                   histVars, pipeVars>>

\* convert_result on a result that carries conv_slots
CallConvertResult ==
    /\ UNCHANGED clsVars
    /\ UNCHANGED finVars
    /\ UNCHANGED audioVars
    /\ UNCHANGED raceVars
    /\ conv_pc = "input"
    /\ \E intent \in {"navigate", "stop", "greeting"} :
          conv_result' = ConvertResult(Result(intent, StrConfidence("high"),
                                              conv_slots, NULL, NULL, NULL))
    /\ conv_pc' = "convert_result"
    /\ UNCHANGED <<conv_slots, conv_out, flagVars, engineVars, ext_pc,
                   histVars, pipeVars>>

\* route on a navigate result that carries conv_slots
CallRouteNavigate ==
    /\ UNCHANGED clsVars
    /\ UNCHANGED finVars
    /\ UNCHANGED audioVars
    /\ UNCHANGED raceVars
    /\ conv_pc = "input"
    /\ \E c \in {NumConfidence(5), NumConfidence(8), StrConfidence("high")},
          use_tts \in BOOLEAN :
          LET r == Result("navigate", c, conv_slots, NULL, NULL, NULL)
              rt == Route(r, action_handlers, router_threshold, use_tts, "")
              sent == SelectSeq(rt.calls, LAMBDA x : x.fn = "speak_text")
          IN  /\ route_input' = r
              /\ route_use_tts' = use_tts
              /\ route_output' = rt.out
              /\ calls' = rt.calls
              /\ cb_speak' \in SpeakOutcomes(sent)
    /\ conv_pc' = "route"
    /\ UNCHANGED <<conv_slots, conv_out, conv_result, flagVars, engineVars,
                   ext_pc, histVars, cb_pc, cb_stt, cb_proc, cb_ret,
                   router_threshold, action_handlers, reg_log>>

\* ------------------------------------------------------ the classifiers
\* Texts are strings, handled a character at a time as the code handles them.
IsSpace(c) == c \in {" ", "\n", "\t", "\r"}

\* str.strip()
Strip(s) ==
    Bind({i \in 1..Len(s) : ~IsSpace(SubSeq(s, i, i))}, LAMBDA kept :
        IF kept = {} THEN ""
        ELSE SubSeq(s, CHOOSE i \in kept : \A j \in kept : i <= j,
                    CHOOSE i \in kept : \A j \in kept : i >= j))

\* str.startswith(p)
StartsWith(s, p) == Len(s) >= Len(p) /\ SubSeq(s, 1, Len(p)) = p

\* p in s
Contains(s, p) ==
    \E i \in 1..(Len(s) - Len(p) + 1) : SubSeq(s, i, i + Len(p) - 1) = p

\* str.split(sep) for a separator of one character
Split(s, sep) ==
    Bind({i \in 1..Len(s) : SubSeq(s, i, i) = sep}, LAMBDA at :
        LET Nth(k) == IF k = 0 THEN 0
                      ELSE IF k > Cardinality(at) THEN Len(s) + 1
                      ELSE CHOOSE i \in at :
                              Cardinality({j \in at : j < i}) = k - 1
        IN  [k \in 1..(Cardinality(at) + 1) |->
                SubSeq(s, Nth(k - 1) + 1, Nth(k) - 1)])

\* sep.join(parts)
RECURSIVE Join(_, _)
Join(parts, sep) ==
    IF parts = <<>> THEN ""
    ELSE IF Len(parts) = 1 THEN parts[1]
    ELSE parts[1] \o sep \o Join(Tail(parts), sep)

\* A value json.loads can give: a dict, read as a classification result
\* whose absent keys are NULL, or a value of another type.
JsonDict(result) == [type |-> "dict", dict |-> result]
JsonOther(type) == [type |-> type, dict |-> NoResult]

RemoteResult(intent, confidence, slots, response, raw_text) ==
    [intent |-> intent, confidence |-> confidence, slots |-> slots,
     slot_object |-> NULL, slot_location |-> NULL, response |-> response,
     raw_text |-> raw_text]

\* The JSON documents of the model and the value json.loads gives for each.
DocNavigate ==
    "{\"intent\": \"navigate\", \"confidence\": 0.9, \"slots\": "
    \o "[{\"type\": \"move\", \"direction\": \"forwards\", "
    \o "\"distance\": 2.0}]}"
DocConversation ==
    "{\"intent\": \"conversation\", \"confidence\": 0.8, "
    \o "\"response\": \"Da, toi day.\"}"
DocWithRawText ==
    "{\"intent\": \"unknown\", \"confidence\": 0.3, \"raw_text\": \"abc\"}"
DocNoIntent == "{\"answer\": \"xin chao\"}"
DocEmptyObject == "{}"
DocArray == "[1, 2]"
DocString == "\"ok\""
DocNumber == "42"
DocNull == "null"
JsonDocuments ==
    {DocNavigate, DocConversation, DocWithRawText, DocNoIntent,
     DocEmptyObject, DocArray, DocString, DocNumber, DocNull}
JsonValueOf(doc) ==
    CASE doc = DocNavigate ->
            JsonDict(RemoteResult("navigate", NumConfidence(9),
                <<Slot("move", "forwards", FloatValue(20), NoneValue)>>,
                NULL, NULL))
      [] doc = DocConversation ->
            JsonDict(RemoteResult("conversation", NumConfidence(8), <<>>,
                                  "Da, toi day.", NULL))
      [] doc = DocWithRawText ->
            JsonDict(RemoteResult("unknown", NumConfidence(3), <<>>, NULL,
                                  "abc"))
      [] doc = DocNoIntent ->
            JsonDict(RemoteResult(NULL, MissingConfidence, <<>>, NULL, NULL))
      [] doc = DocEmptyObject ->
            JsonDict(RemoteResult(NULL, MissingConfidence, <<>>, NULL, NULL))
      [] doc = DocArray -> JsonOther("list")
      [] doc = DocString -> JsonOther("str")
      [] doc = DocNumber -> JsonOther("int")
      [] doc = DocNull -> JsonOther("NoneType")

\* json.loads: white space around a document is skipped; a text that is
\* no JSON document raises JSONDecodeError.
JsonLoads(text) ==
    Bind(Strip(text), LAMBDA doc :
        IF doc \in JsonDocuments
        THEN [ok |-> TRUE, value |-> JsonValueOf(doc)]
        ELSE [ok |-> FALSE, value |-> JsonOther("JSONDecodeError")])

\* clients/openai.py: parse_json_response
FallbackResult(response_text) ==
    RemoteResult("unknown", NumConfidence(0), <<>>, "", response_text)

\* The marker of a fenced block, three backquotes in the code, is written
\* with three tildes: a string of this module cannot hold a backquote.
Fence == "~~~"

ParseJsonResponse(response_text) ==
    Bind(Strip(response_text), LAMBDA stripped :
    Bind(SelectSeq(Split(stripped, "\n"), LAMBDA l : ~StartsWith(l, Fence)),
         LAMBDA lines :
    Bind(IF StartsWith(stripped, Fence) THEN Join(lines, "\n") ELSE stripped,
         LAMBDA text :
    Bind(JsonLoads(text), LAMBDA parsed :
        IF parsed.ok THEN parsed.value
        ELSE JsonDict(FallbackResult(response_text))))))

\* What the remote service does with a request: it answers with a response
\* body, or the request fails.
Message(texts) ==
    [type |-> "message",
     content |-> [i \in 1..Len(texts) |->
                    [type |-> "output_text", text |-> texts[i]]]]
Response(output_text, output) ==
    [output_text |-> output_text, output |-> output]
Answers(response) == [kind |-> "response", response |-> response]
Fails(kind) == [kind |-> kind, response |-> Response(NULL, <<>>)]
NetworkFailures == {"HTTPError", "Timeout", "ConnectionError"}

\* call_openai: the response body, or the exception raised.
Raised(exception) ==
    [raised |-> exception, value |-> JsonOther("NoneType")]
Gives(value) == [raised |-> NULL, value |-> value]

CallOpenaiSwallowsFailure(remote) ==
    IF remote.kind = "NoApiKey" THEN "ValueError" ELSE NULL
CallOpenai(remote) ==
    IF remote.kind = "NoApiKey" THEN "ValueError"
    ELSE IF remote.kind \in NetworkFailures THEN "RuntimeError"
    ELSE NULL

\* extract_text
RECURSIVE ExtractContent(_)
ExtractContent(content) ==
    IF content = <<>> THEN ""
    ELSE (IF Head(content).type = "output_text" THEN Head(content).text
          ELSE "")
         \o ExtractContent(Tail(content))
RECURSIVE ExtractOutput(_)
ExtractOutput(output) ==
    IF output = <<>> THEN ""
    ELSE (IF Head(output).type = "message"
          THEN ExtractContent(Head(output).content)
          ELSE "")
         \o ExtractOutput(Tail(output))
ExtractText(response) ==
    IF response.output_text # NULL THEN response.output_text
    ELSE ExtractOutput(response.output)

\* Truth of a Python string, None included.
Truthy(s) == s # NULL /\ s # ""

\* intents/classifier.py: classify_with_openai.  result.get exists on a
\* dict alone.
ClassifyWithOpenai(text, remote) ==
    Bind(CallOpenai(remote), LAMBDA failure :
    Bind(ParseJsonResponse(ExtractText(remote.response)), LAMBDA result :
        IF failure # NULL THEN Raised(failure)
        ELSE IF result.type # "dict" THEN Raised("AttributeError")
        ELSE IF ~Truthy(result.dict.raw_text)
        THEN Gives(JsonDict([result.dict EXCEPT !.raw_text = text]))
        ELSE Gives(result)))

\* ---------------------------------------------- the rule-based classifiers
\* Vietnamese letters are written letter by letter as the base letter and
\* digits: 6 for the circumflex, 7 for the horn, 8 for the breve, d9 for đ,
\* then the tone, 1 (acute) 2 (grave) 3 (hook) 4 (tilde) 5 (dot below):
\* "cha2o ba5n" is "chào bạn", "du72ng la5i d9i" is "dừng lại đi".  A letter
\* is still one unit of word characters, so prefixes, substrings and word
\* boundaries are those of the text.  The texts of the model are ASCII,
\* which unicodedata.normalize("NFC", ...) leaves as they are.
UpperCase == "ABCDEFGHIJKLMNOPQRSTUVWXYZ"
LowerCase == "abcdefghijklmnopqrstuvwxyz"
Digits == "0123456789"
CharAt(s, i) == SubSeq(s, i, i)

\* \w of the re module
IsWordChar(c) ==
    \/ \E i \in 1..Len(LowerCase) :
          c = CharAt(LowerCase, i) \/ c = CharAt(UpperCase, i)
    \/ \E i \in 1..Len(Digits) : c = CharAt(Digits, i)
    \/ c = "_"

\* "".join(parts[lo..hi])
RECURSIVE Concat(_, _, _)
Concat(parts, lo, hi) ==
    IF lo > hi THEN ""
    ELSE IF lo = hi THEN parts[lo]
    ELSE Concat(parts, lo, (lo + hi) \div 2)
         \o Concat(parts, (lo + hi) \div 2 + 1, hi)

\* str.lower()
Lower(s) ==
    Concat([i \in 1..Len(s) |->
               IF \E k \in 1..Len(UpperCase) : CharAt(UpperCase, k) = CharAt(s, i)
               THEN CharAt(LowerCase,
                           CHOOSE k \in 1..Len(UpperCase) :
                               CharAt(UpperCase, k) = CharAt(s, i))
               ELSE CharAt(s, i)],
           1, Len(s))

\* re.sub(r'\s+', ' ', s)
CollapseSpaces(s) ==
    Concat([i \in 1..Len(s) |->
               IF ~IsSpace(CharAt(s, i)) THEN CharAt(s, i)
               ELSE IF i > 1 /\ IsSpace(CharAt(s, i - 1)) THEN ""
               ELSE " "],
           1, Len(s))

\* text_utils.py
NormalizeText(text) == CollapseSpaces(Strip(Lower(text)))

\* str.split()
Words(s) == SelectSeq(Split(CollapseSpaces(s), " "), LAMBDA w : w # "")

RemoveEndingParticles(text, particles) ==
    Bind(Words(text), LAMBDA words :
    Bind({n \in 0..Len(words) :
             \A i \in (n + 1)..Len(words) : words[i] \in particles},
         LAMBDA keep :
    Bind(CHOOSE n \in keep : \A k \in keep : n <= k, LAMBDA last :
        Join(SubSeq(words, 1, last), " "))))

RemoveAllParticles(text, particles) ==
    Join(SelectSeq(Words(text), LAMBDA w : w \notin particles), " ")

\* re.sub(r'[^\w\s]', '', text), then the white space collapsed and stripped
CleanText(text) ==
    Strip(CollapseSpaces(
        Concat([i \in 1..Len(text) |->
                   IF IsWordChar(CharAt(text, i)) \/ IsSpace(CharAt(text, i))
                   THEN CharAt(text, i) ELSE ""],
               1, Len(text))))

IsOnlyStopWords(text, stop_words) ==
    Bind(Words(text), LAMBDA words :
        /\ words # <<>>
        /\ \A i \in 1..Len(words) : words[i] \in stop_words)

\* Matching from the start of a text: a matcher gives the position after
\* what it consumed, 0 when it does not match.
MatchLiteral(text, pos, lit) ==
    IF pos # 0 /\ pos + Len(lit) - 1 <= Len(text)
       /\ SubSeq(text, pos, pos + Len(lit) - 1) = lit
    THEN pos + Len(lit) ELSE 0

\* \s+
MatchSpaces(text, pos) ==
    IF pos # 0 /\ pos <= Len(text) /\ IsSpace(CharAt(text, pos))
    THEN CHOOSE e \in (pos + 1)..(Len(text) + 1) :
            /\ \A i \in pos..(e - 1) : IsSpace(CharAt(text, i))
            /\ e = Len(text) + 1 \/ ~IsSpace(CharAt(text, e))
    ELSE 0

\* \b
AtWordBoundary(text, pos) ==
    /\ pos # 0
    /\ (pos > 1 /\ IsWordChar(CharAt(text, pos - 1)))
       # (pos <= Len(text) /\ IsWordChar(CharAt(text, pos)))

\* check_pattern_match with a pattern ^<prefix>\b\s* : the stripped rest of
\* the text, NULL when the pattern does not match.
RestAfter(text, end) ==
    IF AtWordBoundary(text, end)
    THEN Strip(SubSeq(text, end, Len(text)))
    ELSE NULL
CheckPatternMatch(text, prefix) == RestAfter(text, MatchLiteral(text, 1, prefix))

\* settings.py and patterns.py: the word lists
GREETING_WORDS ==
    <<"cha2o", "xin cha2o", "hello", "hi", "hey", "cha2o ba5n", "cha2o anh",
      "cha2o chi5", "cha2o em">>
TIME_PHRASES ==
    <<"buo63i sa1ng", "buo63i chie62u", "buo63i to61i", "sa1ng", "chie62u",
      "to61i">>
WISH_PHRASES == <<"vui ve3", "to61t la2nh", "an la2nh">>
COMPANION_WORDS ==
    {"ba5n", "robot", "anh", "chi5", "em", "ca65u", "ma2y", "o6ng", "ba2"}
ENDING_PARTICLES ==
    {"nhe1", "nha", "nha1", "ne2", "hen", "ha", "a1", "a5", "o7i", "oi"}
NOISE_WORDS == {"o7", "o72", "a2", "u72", "u7", "hu73", "ha3", "gi2", "sao"}
OTHER_GREETINGS == <<"ra61t vui d9u7o75c ga85p", "ha6n ha5nh">>

\* An answer of a local classifier.
Answer(intent, flag, confidence) ==
    [intent |-> intent, flag |-> flag, confidence |-> confidence]

\* ^robot\s+ơi\b
MatchHeyRobot(text) ==
    AtWordBoundary(text,
        MatchLiteral(text, MatchSpaces(text, MatchLiteral(text, 1, "robot")),
                     "o7i"))

\* ^(buổi\s+)?(sáng|chiều|tối)\s+(vui\s+vẻ|tốt\s+lành|an\s+lành)\b
MatchTimeWish(text) ==
    \E start \in {1, MatchSpaces(text, MatchLiteral(text, 1, "buo63i"))},
       time \in {"sa1ng", "chie62u", "to61i"},
       wish \in {<<"vui", "ve3">>, <<"to61t", "la2nh">>, <<"an", "la2nh">>} :
       AtWordBoundary(text,
           MatchLiteral(text,
               MatchSpaces(text,
                   MatchLiteral(text,
                       MatchSpaces(text, MatchLiteral(text, start, time)),
                       wish[1])),
               wish[2]))

\* greeting.py: _check_special_patterns
CheckSpecialPatterns(normalized) ==
    Bind(RemoveEndingParticles(normalized, ENDING_PARTICLES), LAMBDA clean :
        \/ MatchHeyRobot(clean)
        \/ MatchTimeWish(clean)
        \/ \E i \in 1..Len(OTHER_GREETINGS) :
              Bind(CheckPatternMatch(clean, OTHER_GREETINGS[i]),
                   LAMBDA remaining :
              Bind(RemoveAllParticles(remaining, ENDING_PARTICLES),
                   LAMBDA remaining_clean :
                  /\ remaining # NULL
                  /\ remaining_clean = ""
                     \/ remaining_clean \in COMPANION_WORDS)))

\* _is_valid_remaining
IsValidRemaining(remaining) ==
    Bind(CleanText(remaining), LAMBDA cleaned :
    Bind(RemoveEndingParticles(cleaned, ENDING_PARTICLES), LAMBDA ended :
    Bind(RemoveAllParticles(ended, ENDING_PARTICLES), LAMBDA remaining_clean :
    Bind(Words(remaining_clean), LAMBDA words :
        \/ remaining = ""
        \/ cleaned = ""
        \/ ended = ""
        \/ remaining_clean = ""
        \/ Len(words) = 1 /\ words[1] \in COMPANION_WORDS
        \/ \E i \in 1..Len(TIME_PHRASES) :
              Bind(Strip(SubSeq(remaining_clean, Len(TIME_PHRASES[i]) + 1,
                                Len(remaining_clean))),
                   LAMBDA rest :
                  /\ StartsWith(remaining_clean, TIME_PHRASES[i])
                  /\ \/ rest = ""
                     \/ rest \in COMPANION_WORDS
                     \/ \E k \in 1..Len(WISH_PHRASES) :
                           Contains(rest, WISH_PHRASES[k]))))))

\* _check_basic_greeting: the first pattern of the list that matches with a
\* valid rest decides; NoAnswer stands for None.
NoAnswer == Answer(NULL, FALSE, MissingConfidence)

CheckBasicGreeting(normalized) ==
    Bind([i \in 1..Len(GREETING_WORDS) |->
             CheckPatternMatch(normalized, GREETING_WORDS[i])],
         LAMBDA remaining :
    Bind({i \in 1..Len(GREETING_WORDS) :
             remaining[i] # NULL /\ IsValidRemaining(remaining[i])},
         LAMBDA hits :
    Bind(CHOOSE i \in hits : \A k \in hits : i <= k, LAMBDA first :
        IF hits = {} THEN NoAnswer
        ELSE Answer("greeting", TRUE,
                    IF remaining[first] = "" THEN StrConfidence("high")
                    ELSE StrConfidence("medium")))))

\* _check_time_greeting, patterns ^chào\s+<time>\b\s*
CheckTimeGreeting(normalized) ==
    IF \E i \in 1..Len(TIME_PHRASES) :
          Bind(RestAfter(normalized,
                   MatchLiteral(normalized,
                       MatchSpaces(normalized,
                           MatchLiteral(normalized, 1, "cha2o")),
                       TIME_PHRASES[i])),
               LAMBDA matched :
          Bind(RemoveEndingParticles(matched, ENDING_PARTICLES),
               LAMBDA remaining :
              /\ matched # NULL
              /\ remaining = "" \/ remaining \in COMPANION_WORDS))
    THEN Answer("greeting", TRUE, StrConfidence("high"))
    ELSE NoAnswer

\* GreetingClassifier.is_greeting
IsGreeting(text) ==
    Bind(NormalizeText(text), LAMBDA normalized :
    Bind(CheckBasicGreeting(normalized), LAMBDA basic :
    Bind(CheckTimeGreeting(normalized), LAMBDA timed :
        IF IsOnlyStopWords(normalized, NOISE_WORDS)
        THEN Answer("noise", FALSE, StrConfidence("high"))
        ELSE IF CheckSpecialPatterns(normalized)
        THEN Answer("greeting", TRUE, StrConfidence("high"))
        ELSE IF basic # NoAnswer THEN basic
        ELSE IF timed # NoAnswer THEN timed
        ELSE Answer("not_greeting", FALSE, StrConfidence("high")))))

\* \s*
SkipSpaces(text, pos) ==
    Bind(MatchSpaces(text, pos), LAMBDA end : IF end # 0 THEN end ELSE pos)

\* stop.py.  The configured lists: a stop word list with "dừng", "dừng lại"
\* and "stop", prefix fillers "robot" and "hãy", suffix fillers "đi" and
\* "nhé".
INTENT_STOP == "stop"
STOP_WORDS == <<"du72ng", "du72ng la5i", "stop">>
STOP_PREFIXES == <<"robot", "ha4y">>
STOP_SUFFIXES == <<"d9i", "nhe1">>

\* The limits written in is_stop: characters and tokens.
StopMaxChars == 50
StopMaxTokens == 6

\* _normalize: re.sub(r'[!?.,:;]+', '', text) between lower/strip and the
\* collapsing of white space
StopNormalize(text) ==
    Bind(Strip(Lower(text)), LAMBDA lowered :
    Bind(Concat([i \in 1..Len(lowered) |->
                    IF CharAt(lowered, i) \in {"!", "?", ".", ",", ":", ";"}
                    THEN "" ELSE CharAt(lowered, i)],
                1, Len(lowered)),
         LAMBDA bare :
        Strip(CollapseSpaces(bare))))

\* _compile_patterns: ^(?:prefixes)?\s*word\s*(?:suffixes)?$ for each word;
\* some pattern matches the whole text.
Range(seq) == {seq[i] : i \in 1..Len(seq)}
MatchesStopPattern(normalized) ==
    \E prefix \in Range(STOP_PREFIXES) \cup {""},
       word \in Range(STOP_WORDS),
       suffix \in Range(STOP_SUFFIXES) \cup {""} :
       MatchLiteral(normalized,
           SkipSpaces(normalized,
               MatchLiteral(normalized,
                   SkipSpaces(normalized,
                       MatchLiteral(normalized, 1, prefix)),
                   word)),
           suffix) = Len(normalized) + 1

\* StopClassifier.is_stop; _result gives CONFIDENCE_HIGH when no confidence
\* is passed.
IsStopIgnoresLength(text) ==
    Bind(StopNormalize(text), LAMBDA normalized :
        IF normalized = ""
        THEN Answer("not_stop", FALSE, NumConfidence(CONFIDENCE_HIGH))
        ELSE IF MatchesStopPattern(normalized)
        THEN Answer(INTENT_STOP, TRUE, NumConfidence(CONFIDENCE_HIGH))
        ELSE IF /\ \E w \in Range(STOP_WORDS) : Contains(normalized, w)
                /\ Len(Words(normalized)) <= StopMaxTokens
        THEN Answer(INTENT_STOP, TRUE, NumConfidence(CONFIDENCE_MEDIUM))
        ELSE Answer("not_stop", FALSE, NumConfidence(CONFIDENCE_HIGH)))
IsStop(text) ==
    Bind(StopNormalize(text), LAMBDA normalized :
        IF normalized = "" \/ Len(normalized) > StopMaxChars
        THEN Answer("not_stop", FALSE, NumConfidence(CONFIDENCE_HIGH))
        ELSE IF MatchesStopPattern(normalized)
        THEN Answer(INTENT_STOP, TRUE, NumConfidence(CONFIDENCE_HIGH))
        ELSE IF /\ \E w \in Range(STOP_WORDS) : Contains(normalized, w)
                /\ Len(Words(normalized)) <= StopMaxTokens
        THEN Answer(INTENT_STOP, TRUE, NumConfidence(CONFIDENCE_MEDIUM))
        ELSE Answer("not_stop", FALSE, NumConfidence(CONFIDENCE_HIGH)))

\* intents/classifier.py: classify_intent.  The local classifiers are asked
\* in turn; the calls made are kept in order.
LocalResult(intent, confidence, text) ==
    RemoteResult(intent, confidence, <<>>, "", text)

ClassifyIntentAsksRemoteFirst(text, remote) ==
    [out |-> ClassifyWithOpenai(text, remote),
     trace |-> <<"call_openai">>]
ClassifyIntent(text, remote) ==
    Bind(IsGreeting(text), LAMBDA greeting_result :
    Bind(IsStop(text), LAMBDA stop_result :
        IF greeting_result.flag
        THEN [out |-> Gives(JsonDict(LocalResult("greeting",
                        NumConfidence(IF greeting_result.confidence
                                            = StrConfidence("high")
                                      THEN CONFIDENCE_HIGH
                                      ELSE CONFIDENCE_MEDIUM), text))),
              trace |-> <<"is_greeting">>]
        ELSE IF greeting_result.intent = "noise"
        THEN [out |-> Gives(JsonDict(LocalResult("noise",
                        NumConfidence(CONFIDENCE_HIGH), text))),
              trace |-> <<"is_greeting">>]
        ELSE IF stop_result.flag
        THEN [out |-> Gives(JsonDict(LocalResult("stop",
                        stop_result.confidence, text))),
              trace |-> <<"is_greeting", "is_stop">>]
        ELSE [out |-> ClassifyWithOpenai(text, remote),
              trace |-> <<"is_greeting", "is_stop", "call_openai">>]))

\* Inputs of the classifier model: reply texts are the documents and texts
\* that are no JSON, bare, padded with white space and fenced in several ways.
NotJson ==
    {"", "Xin loi, toi khong hieu.", "{\"intent\": \"navigate\","}
Wrappings ==
    {"bare", "padded", "fenced", "fenced_padded", "fence_indented",
     "fence_one_line", "fence_after_prose"}
Wrap(w, doc) ==
    CASE w = "bare" -> doc
      [] w = "padded" -> "  " \o doc \o "\n"
      [] w = "fenced" -> "~~~json\n" \o doc \o "\n~~~"
      [] w = "fenced_padded" -> "\n~~~\n" \o doc \o "\n~~~\n"
      [] w = "fence_indented" -> "~~~json\n" \o doc \o "\n  ~~~"
      [] w = "fence_one_line" -> "~~~" \o doc \o "~~~"
      [] w = "fence_after_prose" -> "Ket qua:\n~~~json\n" \o doc \o "\n~~~"
ReplyTexts == {Wrap(w, d) : w \in Wrappings, d \in JsonDocuments \cup NotJson}
Remotes ==
    {Answers(Response(t, <<>>)) : t \in ReplyTexts}
    \cup {Answers(Response(NULL, <<Message(<<t>>)>>)) :
            t \in {DocNavigate, DocArray, Wrap("fenced", DocConversation)}}
    \cup {Answers(Response(NULL, <<>>)),
          Answers(Response(NULL,
              <<[type |-> "reasoning", content |-> <<>>],
                Message(<<"~~~json\n", DocNavigate, "\n~~~">>)>>))}
    \cup {Fails(k) : k \in NetworkFailures \cup {"NoApiKey"}}
\* Every text meets a remote service that answers and one that fails; two
\* texts left to the remote classifier meet every behaviour of the service.
UsualRemotes == {Answers(Response(DocNavigate, <<>>)), Fails("Timeout")}
RemoteTexts == {"d9i tha83ng hai me1t", "re4 tra1i"}

\* The user's texts: greetings with companions, time phrases, wishes and
\* particles, filler words, stop commands bare, with fillers, inside longer
\* texts, with punctuation and capitals, texts at and over the limits of
\* the stop classifier, empty texts, and commands for the remote classifier.
Texts ==
    {"cha2o ba5n", "cha2o buo63i sa1ng nhe1", "o7 o72 a2", "to6i muo61n d9i",
     "cha2o", "Xin cha2o!", "  Cha2o   BA5N  ", "hello", "hi there", "him",
     "cha2o buo63i sa1ng", "cha2o buo63i to61i ba5n", "buo63i sa1ng vui ve3",
     "robot o7i", "ra61t vui d9u7o75c ga85p ba5n", "ha3", "cha2o robot nhe1",
     "cha2o em o7i", "cha2o ba5n du72ng la5i",
     "xin cha2o buo63i chie62u to61t la2nh", "hey, ba5n!", "cha2o sa1ng",
     "sa1ng vui ve3 nhe1", "ha6n ha5nh", "cha2o anh chi5", "du72ng la5i d9i",
     "du72ng", "Du72ng la5i!", "robot du72ng la5i nhe1", "ha4y du72ng",
     "stop", "du72ng la5id9i", "d9u72ng du72ng la5i",
     "ba5n o7i du72ng la5i ngay cho to6i", "to6i muo61n ba5n du72ng",
     "du72ng la5i d9i du72ng la5i d9i du72ng la5i d9i du72ng la5i d9i du72ng la5i d9i",
     "stop aaaaaaaaaaaaaaaaaaaaaaaaaaaaaaaaaaaaaaaaaaaaa",
     "stop aaaaaaaaaaaaaaaaaaaaaaaaaaaaaaaaaaaaaaaaaaaaaa", "", "   ", "?!",
     "stopwatch", "mo65t hai ba bo61n na8m sa1u du72ng",
     "d9i tha83ng hai me1t", "re4 tra1i", "robot  stop   d9i", "ha4y stop.",
     "stop, now; please: yes? no! ok", "du72ng. la5i", "a b c d e stop",
     "a b c d e f stop",
     "stop!!! ??????????????????????????????????????????????????"}

NoOutcome == Raised("<not called>")

ClassifierIdle ==
    /\ cls_pc = "idle"
    /\ cls_text = ""
    /\ cls_remote = Answers(Response(NULL, <<>>))
    /\ cls_out = NoOutcome
    /\ cls_local = NoAnswer
    /\ cls_trace = <<>>

\* parse_json_response on the text of the remote reply
CallParseJsonResponse ==
    /\ cls_pc = "input"
    /\ cls_remote.kind = "response"
    /\ cls_out' = Gives(ParseJsonResponse(ExtractText(cls_remote.response)))
    /\ cls_pc' = "parse_json_response"
    /\ UNCHANGED <<cls_text, cls_remote, cls_local, cls_trace, convVars,
                   flagVars, engineVars, ext_pc, finVars, audioVars, raceVars, histVars, pipeVars>>

\* classify_with_openai(cls_text)
CallClassifyWithOpenai ==
    /\ cls_pc = "input"
    /\ cls_out' = ClassifyWithOpenai(cls_text, cls_remote)
    /\ cls_trace' = <<"call_openai">>
    /\ cls_pc' = "classify_with_openai"
    /\ UNCHANGED <<cls_text, cls_remote, cls_local, convVars, flagVars,
                   engineVars, ext_pc, finVars, audioVars, raceVars, histVars, pipeVars>>

\* GreetingClassifier.is_greeting(cls_text)
CallIsGreeting ==
    /\ cls_pc = "input"
    /\ cls_local' = IsGreeting(cls_text)
    /\ cls_trace' = <<"is_greeting">>
    /\ cls_pc' = "is_greeting"
    /\ UNCHANGED <<cls_text, cls_remote, cls_out, convVars, flagVars,
                   engineVars, ext_pc, finVars, audioVars, raceVars, histVars, pipeVars>>

\* StopClassifier.is_stop(cls_text)
CallIsStop ==
    /\ cls_pc = "input"
    /\ cls_local' = IsStop(cls_text)
    /\ cls_trace' = <<"is_stop">>
    /\ cls_pc' = "is_stop"
    /\ UNCHANGED <<cls_text, cls_remote, cls_out, convVars, flagVars,
                   engineVars, ext_pc, finVars, audioVars, raceVars, histVars, pipeVars>>

\* classify_intent(cls_text)
CallClassifyIntent ==
    /\ cls_pc = "input"
    /\ \E c \in {ClassifyIntent(cls_text, cls_remote)} :
          cls_out' = c.out /\ cls_trace' = c.trace
    /\ cls_pc' = "classify_intent"
    /\ UNCHANGED <<cls_text, cls_remote, cls_local, convVars, flagVars,
                   engineVars, ext_pc, finVars, audioVars, raceVars, histVars, pipeVars>>

\* processor.py: process_input(cls_text, use_tts): classify_intent, then
\* route_intent on its result; an exception of classify_intent leaves
\* process_input before route is called.
CallProcessInput ==
    /\ cls_pc = "input"
    /\ \E c \in {ClassifyIntent(cls_text, cls_remote)} :
       LET r == c.out.value.dict
       IN  /\ cls_out' = c.out
           /\ IF c.out.raised # NULL
              THEN /\ cls_trace' = c.trace
                   /\ UNCHANGED <<route_input, route_use_tts, route_output, calls, cb_speak>>
              ELSE \E use_tts \in BOOLEAN :
                   \E canned \in GetResponse(IF r.intent = NULL THEN "unknown"
                                             ELSE r.intent) :
                      LET rt == Route(r, action_handlers, router_threshold,
                                      use_tts, canned)
                          sent == SelectSeq(rt.calls,
                                            LAMBDA x : x.fn = "speak_text")
                      IN  /\ route_input' = r
                          /\ route_use_tts' = use_tts
                          /\ route_output' = rt.out
                          /\ calls' = rt.calls
                          /\ cb_speak' \in SpeakOutcomes(sent)
                          /\ cls_trace' = Append(c.trace, "route")
    /\ cls_pc' = "process_input"
    /\ UNCHANGED <<cls_text, cls_remote, cls_local, convVars, flagVars,
                   engineVars, ext_pc, finVars, audioVars, raceVars, histVars, cb_pc, cb_stt, cb_proc,
                   cb_ret, router_threshold, action_handlers, reg_log>>

ClassifyInit ==
    /\ EngineInit
    /\ PipelineIdle
    /\ ConverterIdle
    /\ router_threshold = CONFIDENCE_THRESHOLD
    /\ cls_pc = "input"
    /\ \/ cls_text \in Texts /\ cls_remote \in UsualRemotes
       \/ cls_text \in RemoteTexts /\ cls_remote \in Remotes
    /\ cls_out = NoOutcome
    /\ cls_local = NoAnswer
    /\ cls_trace = <<>>

ClassifyNext ==
    \/ CallParseJsonResponse
    \/ CallClassifyWithOpenai
    \/ CallIsGreeting
    \/ CallIsStop
    \/ CallClassifyIntent
    \/ CallProcessInput

ClassifySpec == ClassifyInit /\ [][ClassifyNext]_vars

ConverterInit ==
    /\ EngineInit
    /\ PipelineIdle
    /\ ClassifierIdle
    /\ router_threshold = CONFIDENCE_THRESHOLD
    /\ conv_pc = "input"
    /\ conv_slots \in SlotLists
    /\ conv_out = NotCalled
    /\ conv_result = NoConversion

ConverterNext ==
    \/ CallSlotsToCommand
    \/ CallConvertResult
    \/ CallRouteNavigate

ConverterSpec == ConverterInit /\ [][ConverterNext]_vars

PipelineInit ==
    /\ EngineInit
    /\ PipelineIdle
    /\ ClassifierIdle
    /\ ConverterIdle
    /\ router_threshold \in Thresholds

PipelineNext ==
    \/ RegisterAction
    \/ InvokeCallback
    \/ SpeechToText
    \/ ProcessInput
    \/ FinallyResumeFirst
    \/ FinallyResumeSecond
    \/ RouteDirect

PipelineSpec == PipelineInit /\ [][PipelineNext]_vars

\* ------------------------------------------------------------ specification
EngineStep ==
    \/ PausedSleep
    \/ PollNotPaused
    \/ ClearIsSet
    \/ ClearConsume
    \/ ClearNotSetReset
    \/ ClearNotSetRead
    \/ ReadError
    \/ ReadMalformed
    \/ ReadGrace
    \/ ReadProcess
    \/ FinStopStream
    \/ ProcessAndResetTail

\* The engine runs with the singleton router, whose threshold is the default.
Init ==
    /\ EngineInit
    /\ PipelineIdle
    /\ ClassifierIdle
    /\ ConverterIdle
    /\ router_threshold = CONFIDENCE_THRESHOLD

Next ==
    \/ EngineStep
    \/ CaptureWhileFinalizing
    \/ ExtPause
    \/ ExtResumeFirst
    \/ ExtResumeSecond

Spec == Init /\ [][Next]_vars

\* The engine as MicDriverNode.run drives it, with interrupts.
InterruptNext ==
    \/ Next
    \/ Interrupt
    \/ StartSession

InterruptSpec == Init /\ [][InterruptNext]_vars

TypeOK ==
    /\ recording_paused \in BOOLEAN
    /\ need_clear_buffer \in BOOLEAN
    /\ pc \in {"poll_pause", "poll_clear", "clear_clear", "read", "fin_begin",
               "enhance", "callback", "cb_resume", "done"}
    /\ ignore_frames_remaining \in 0..POST_RESUME_IGNORE_FRAMES
    /\ Len(pre_buffer) <= PRE_BUFFER_FRAMES
    /\ nread \in 0..MaxFrames
    /\ cb_pc \in {"idle", "routed", "stt", "process", "finally",
                  "finally_resume", "done"}
    /\ router_threshold \in Thresholds
    /\ cb_speak \in {"none", "ok", "failed"}

\* ================================================================== claims
\* The frames of both buffers and of the list last given to enhancement.
HeldFrames ==
    {pre_buffer[i] : i \in 1..Len(pre_buffer)}
    \cup {recorded_frames[i] : i \in 1..Len(recorded_frames)}
    \cup {handed[i] : i \in 1..Len(handed)}

\* A step in which the engine takes a well-formed frame from the stream.
TakesFrame == nread' = nread + 1
\* A step in which a frame enters PreRollBuffer or Utterance.
AcceptsFrame ==
    /\ TakesFrame
    /\ pre_buffer' # pre_buffer \/ recorded_frames' # recorded_frames
\* A step that starts a finalization, and one that hands an Utterance over.
StartsFinalization == pc # "fin_begin" /\ pc' = "fin_begin"
HandsOver == pc = "enhance" /\ handed' # <<>>

\* ---- C1
\* The frames processed since the latest reset form: at least
\* PRE_BUFFER_FRAMES non-speech frames, one run of speech frames, and
\* SILENCE_FRAMES_THRESHOLD non-speech frames.
SpeechAt(tr) == {i \in 1..Len(tr) : tr[i].speech}
FirstSpeech(tr) == CHOOSE i \in SpeechAt(tr) : \A j \in SpeechAt(tr) : i <= j
LastSpeech(tr) == CHOOSE i \in SpeechAt(tr) : \A j \in SpeechAt(tr) : j <= i
FlankedRun(tr) ==
    /\ SpeechAt(tr) # {}
    /\ FirstSpeech(tr) - 1 >= PRE_BUFFER_FRAMES
    /\ \A k \in FirstSpeech(tr)..LastSpeech(tr) : tr[k].speech
    /\ Len(tr) - LastSpeech(tr) = SILENCE_FRAMES_THRESHOLD
PreRollPlusRun(tr) ==
    SubSeq(tr, FirstSpeech(tr) - PRE_BUFFER_FRAMES, LastSpeech(tr))

\* C1: for a speech run flanked by at least N non-speech frames before and
\* the silence threshold after, the Utterance handed to enhancement is the N
\* frames before the first speech frame, then each speech frame exactly
\* once, in arrival order, and nothing that arrived after the run.
C1_UtteranceIsPreRollPlusRun ==
    (handed # <<>> /\ FlankedRun(trace)) => handed = PreRollPlusRun(trace)

\* ---- C2
\* C2: after pause_recording() followed by resume_recording() the engine is
\* Armed with an empty PreRollBuffer and an empty Utterance before it
\* processes the next frame, and hands over nothing accumulated before.
C2_PauseResumeLeavesArmedEmpty ==
    [][ resume_req = "returned_p" =>
          /\ (Len(trace') = Len(trace) + 1 =>
                ~recording /\ pre_buffer = <<>> /\ recorded_frames = <<>>)
          /\ ~HandsOver ]_vars

\* ---- C3
\* C3: after every reset exactly POST_RESUME_IGNORE_FRAMES well-formed frames
\* are discarded whatever the VAD would say of them: the reset arms the full
\* window, each frame taken inside it only decrements the counter, and a
\* frame taken outside it is processed, after the whole window has been
\* discarded.
C3_GraceWindowDiscardsExactly ==
    [][ /\ has_reset' =>
             ignore_frames_remaining' + grace_discarded'
                = POST_RESUME_IGNORE_FRAMES
        /\ TakesFrame =>
             IF ignore_frames_remaining > 0
             THEN /\ ignore_frames_remaining' = ignore_frames_remaining - 1
                  /\ UNCHANGED <<pre_buffer, recorded_frames, recording,
                                 consecutive_silence_frames, trace, handed,
                                 recording_paused, was_paused>>
                  /\ pc' = "poll_pause"
             ELSE /\ Len(trace') = Len(trace) + 1
                  /\ has_reset =>
                       grace_discarded = POST_RESUME_IGNORE_FRAMES ]_vars

\* A reset, its whole window discarded, and the next frame processed.
C3_Witness ==
    /\ has_reset
    /\ grace_discarded = POST_RESUME_IGNORE_FRAMES
    /\ Len(trace) = 1
    /\ Len(pre_buffer) = 1

\* ---- C4
\* C4: one or two (or more) resume_recording() calls made in a row since the
\* engine last took a frame leave, once the engine has polled, the same
\* state: Armed, both buffers empty, PauseFlag clear, a full grace window,
\* ClearBufferFlag clear.
C4_ResumeTwiceAsOnce ==
    ( /\ resume_count >= 1
      /\ ext_pc = "idle"
      /\ resume_req = "none"
      /\ pc \in {"poll_pause", "poll_clear", "read"} )
    => /\ ~recording
       /\ pre_buffer = <<>>
       /\ recorded_frames = <<>>
       /\ consecutive_silence_frames = 0
       /\ ignore_frames_remaining = POST_RESUME_IGNORE_FRAMES
       /\ ~recording_paused
       /\ ~need_clear_buffer

\* Two resume calls in a row, both polled, the engine about to read.
C4_Witness ==
    /\ resume_count = 2
    /\ ext_pc = "idle"
    /\ resume_req = "none"
    /\ pc = "read"
    /\ nread > 0

\* ---- C5
\* C5: once an utterance has been finalized, a frame processed while Armed
\* more than the idle-exit duration after that finalization, with no speech
\* frame since, makes run_recording_loop return None.
C5_IdleExitReturnsNone ==
    [][ ( /\ Len(trace') = Len(trace) + 1
          /\ ~recording'
          /\ since_final' # NoTime
          /\ since_final' > SILENCE_EXIT_TICKS )
        => ret' = "none" ]_vars

C7_ResetBeforeNextFrame ==
    [][ (resume_req = "returned" \/ resume_req = "returned_p") =>
          (~AcceptsFrame /\ ~StartsFinalization) ]_vars

\* ---- C8
\* C8: whenever PauseFlag was last written by a resume (cleared), the
\* ClearBufferFlag signal of the latest resume has been set: it is either
\* still set or the engine has consumed it.  So the engine, polling
\* PauseFlag and then ClearBufferFlag, never sees "not paused" from a resume
\* together with "no clear needed" unless it consumed the signal itself.
C8_ClearVisibleBeforeUnpause ==
    /\ pause_writer = "resume" =>
         /\ clear_sig \in {"set", "consumed"}
         /\ clear_sig = "set" => need_clear_buffer
    /\ (pc = "poll_clear" /\ pause_writer = "resume") =>
         need_clear_buffer \/ clear_sig = "consumed"

\* The engine never saw the pause: it polled "not paused" after a resume
\* cleared PauseFlag, and finds ClearBufferFlag set.
C8_Witness ==
    /\ pc = "poll_clear"
    /\ pause_writer = "resume"
    /\ ~was_paused
    /\ need_clear_buffer
    /\ clear_sig = "set"
    /\ pre_buffer # <<>>

\* ---- C9
\* C9 (PipelineSpec): when _on_utterance is over, resume_recording() has
\* been called exactly once and was the last thing it did, ClearBufferFlag is
\* set and PauseFlag clear; it never returns True; and it returned False on
\* every path on which speech-to-text did not raise: no text, classification
\* raising, routing raising, Speech Output failing or succeeding.
C9_CallbackEndsWithResume ==
    /\ cb_ret \in {"none", "False", "raised"}
    /\ cb_pc = "done" =>
         /\ calls # <<>>
         /\ calls[Len(calls)] = Call("resume_recording", "")
         /\ \A i \in 1..(Len(calls) - 1) : calls[i].fn # "resume_recording"
         /\ ~recording_paused
         /\ need_clear_buffer
         /\ cb_ret = IF cb_stt = "raises" THEN "raised" ELSE "False"

\* The callback is over after Speech Output failed on a routed response.
C9_Witness ==
    /\ cb_pc = "done"
    /\ cb_stt = "text"
    /\ cb_proc = "ok"
    /\ cb_speak = "failed"
    /\ route_output.passed
    /\ cb_ret = "False"
    /\ ~recording_paused

\* ---- C10
\* route has been called on route_input (and route_output, calls are its).
RouteCalled == cb_pc = "routed" \/ cb_proc \in {"ok", "route_raises"}

\* C10 (PipelineSpec): for a result whose numeric confidence is below the
\* router's threshold, whatever its intent, route returns passed = false, the
\* fallback phrase, command None and action_result None, and calls neither
\* convert_result nor a registered handler.
C10_LowConfidenceFallsBack ==
    ( /\ RouteCalled
      /\ route_input.confidence.kind = "num"
      /\ route_input.confidence.num < router_threshold )
    => /\ route_output.route # NULL
       /\ route_output.passed = FALSE
       /\ route_output.response = FallbackPhrase
       /\ route_output.command = NULL
       /\ route_output.action_result = NULL
       /\ \A i \in 1..Len(calls) :
             calls[i].fn \notin {"convert_result", "handler"}

\* An action intent with a handler registered, routed just below the
\* threshold.
C10_Witness ==
    /\ RouteCalled
    /\ route_input.intent = "tracking-person"
    /\ action_handlers["tracking-person"] = "h1"
    /\ route_input.confidence.kind = "num"
    /\ route_input.confidence.num = router_threshold - 1
    /\ route_output.response = FallbackPhrase
    /\ route_output.action_result = NULL

\* ---- C11
\* A slot of type move or turn whose direction is in its type's table.
Convertible(slot) ==
    \/ slot.type = "move" /\ slot.direction \in {"forwards", "backwards"}
    \/ slot.type = "turn" /\ slot.direction \in {"left", "right"}
\* The entry the specification asks for: the token of the direction, and the
\* value, the type's default (1 metre, 90 degrees) when absent, a whole
\* number written without a decimal point.
ExpectedToken(slot) ==
    CASE slot.direction = "forwards" -> "FWD"
      [] slot.direction = "backwards" -> "BWD"
      [] slot.direction = "left" -> "TL"
      [] slot.direction = "right" -> "TR"
ExpectedTenths(slot) ==
    IF slot.type = "move"
    THEN (IF slot.distance.kind = "none" THEN 10 ELSE slot.distance.tenths)
    ELSE (IF slot.angle.kind = "none" THEN 900 ELSE slot.angle.tenths)
ExpectedEntry(slot) ==
    ExpectedToken(slot) \o ","
    \o (IF ExpectedTenths(slot) % 10 = 0
        THEN ToString(ExpectedTenths(slot) \div 10)
        ELSE ToString(ExpectedTenths(slot) \div 10) \o "."
             \o ToString(ExpectedTenths(slot) % 10))
RECURSIVE ExpectedEntries(_)
ExpectedEntries(slots) ==
    IF slots = <<>> THEN ""
    ELSE ExpectedEntry(Head(slots)) \o ";" \o ExpectedEntries(Tail(slots))

\* C11 (ConverterSpec): for a non-empty list of convertible slots
\* slots_to_command returns "$SEQ;", one "<token>,<value>" entry per slot in
\* input order, each followed by ";", then "STOP\n"; an absent distance or
\* angle is the type's default and a whole number has no decimal point; a
\* move forwards with no distance gives "$SEQ;FWD,1;STOP\n".
C11_SlotsToCommandFormat ==
    ( /\ conv_pc = "slots_to_command"
      /\ conv_slots # <<>>
      /\ \A i \in 1..Len(conv_slots) : Convertible(conv_slots[i]) )
    => /\ conv_out.ok
       /\ conv_out.str = "$SEQ;" \o ExpectedEntries(conv_slots) \o "STOP\n"
       /\ conv_slots = <<Slot("move", "forwards", NoneValue, NoneValue)>>
            => conv_out.str = "$SEQ;FWD,1;STOP\n"

\* A move with no distance and a turn by 45.5 degrees, converted.
C11_Witness ==
    /\ conv_pc = "slots_to_command"
    /\ conv_slots = <<Slot("move", "backwards", NoneValue, NoneValue),
                      Slot("turn", "left", NoneValue, FloatValue(455))>>
    /\ conv_out.str = "$SEQ;BWD,1;TL,45.5;STOP\n"

\* ---- C12
\* The first slot of the list that is not convertible, and the error that
\* names its type or direction.
FirstBad(slots) ==
    CHOOSE i \in 1..Len(slots) :
        /\ ~Convertible(slots[i])
        /\ \A j \in 1..(i - 1) : Convertible(slots[j])
NameOf(x) == IF x = NULL THEN "None" ELSE x
ExpectedError(slot) ==
    IF slot.type = "move"
    THEN "Unknown move direction: " \o NameOf(slot.direction)
    ELSE IF slot.type = "turn"
    THEN "Unknown turn direction: " \o NameOf(slot.direction)
    ELSE "Unknown slot type: " \o NameOf(slot.type)

\* C12 (ConverterSpec): slots_to_command raises for the empty list and for a
\* list with a slot of unknown type or of a direction not in its type's
\* table, wherever that slot stands; the error names the bad type or
\* direction, and no command string comes back.
C12_SlotsToCommandFails ==
    conv_pc = "slots_to_command" =>
       /\ conv_slots = <<>> =>
            /\ ~conv_out.ok
            /\ conv_out.str = ""
            /\ conv_out.error = "Slots array is empty"
       /\ (\E i \in 1..Len(conv_slots) : ~Convertible(conv_slots[i])) =>
            /\ ~conv_out.ok
            /\ conv_out.str = ""
            /\ conv_out.error = ExpectedError(conv_slots[FirstBad(conv_slots)])

\* A good move followed by a turn "up": the conversion has failed.
C12_Witness ==
    /\ conv_pc = "slots_to_command"
    /\ conv_slots = <<Slot("move", "forwards", FloatValue(20), NoneValue),
                      Slot("turn", "up", NoneValue, NoneValue)>>
    /\ ~conv_out.ok
    /\ conv_out.error = "Unknown turn direction: up"

\* ---- C13
Unconvertible(slots) ==
    \/ slots = <<>>
    \/ \E i \in 1..Len(slots) : ~Convertible(slots[i])
ConversionError(slots) ==
    IF slots = <<>> THEN "Slots array is empty"
    ELSE ExpectedError(slots[FirstBad(slots)])

\* C13 (ConverterSpec): for a navigate result whose slots cannot be
\* converted, convert_result returns the result with formatted_command None
\* and the error text in command_error; and route, when the confidence
\* passes, returns a RouteDecision on the command route whose command is None.
C13_ConversionErrorCaptured ==
    /\ ( /\ conv_pc = "convert_result"
         /\ conv_result.result.intent = "navigate"
         /\ Unconvertible(conv_slots) )
       => /\ conv_result.result.slots = conv_slots
          /\ conv_result.formatted_command = NULL
          /\ conv_result.command_error = ConversionError(conv_slots)
    /\ ( /\ conv_pc = "route"
         /\ Unconvertible(conv_slots)
         /\ GetConfidenceValue(route_input) >= router_threshold )
       => /\ route_output.passed
          /\ route_output.route = "command"
          /\ route_output.command = NULL
          /\ route_output.action_result = NULL

\* A navigate result with a turn "up", routed at passing confidence.
C13_Witness ==
    /\ conv_pc = "route"
    /\ conv_slots = <<Slot("turn", "up", NoneValue, NoneValue)>>
    /\ route_output.passed
    /\ route_output.command = NULL
    /\ route_output.response = "Da nhan lenh di chuyen voi 1 hanh dong."

\* The reply text with its fence marker lines removed, when it begins a
\* fenced block.
FenceStripped(reply) ==
    IF StartsWith(Strip(reply), Fence)
    THEN Join(SelectSeq(Split(Strip(reply), "\n"),
                        LAMBDA l : ~StartsWith(l, Fence)), "\n")
    ELSE Strip(reply)

\* The reply is a classification object: structured data that is an object
\* naming an intent.
IsClassification(reply) ==
    /\ JsonLoads(FenceStripped(reply)).ok
    /\ JsonLoads(FenceStripped(reply)).value.type = "dict"
    /\ JsonLoads(FenceStripped(reply)).value.dict.intent # NULL

\* C14 (ClassifySpec): for every reply text of the remote classifier that is
\* malformed (no structured data, or structured data that is no classification
\* object), classify_with_openai returns the fallback result, intent
\* "unknown", confidence 0.0, empty slots, empty response, the reply as
\* raw_text, and does not raise; a fenced reply is parsed with its fence
\* marker lines removed.  (An empty reply may carry the user's text as
\* raw_text.)
C14_MalformedReplyGivesFallback ==
    (cls_pc = "classify_with_openai" /\ cls_remote.kind = "response")
    => LET reply == ExtractText(cls_remote.response)
           parsed == JsonLoads(FenceStripped(reply)).value.dict
       IN  /\ cls_out.raised = NULL
           /\ cls_out.value.type = "dict"
           /\ IF IsClassification(reply)
              THEN cls_out.value.dict.intent = parsed.intent
              ELSE /\ cls_out.value.dict.intent = "unknown"
                   /\ cls_out.value.dict.confidence = NumConfidence(0)
                   /\ cls_out.value.dict.slots = <<>>
                   /\ cls_out.value.dict.response = ""
                   /\ cls_out.value.dict.raw_text
                         \in {reply} \cup (IF reply = "" THEN {cls_text}
                                           ELSE {})

\* C15 (ClassifySpec): when the remote call fails at network level (timeout,
\* HTTP error, connection error), classify_intent and process_input raise to
\* their caller and return no "unknown" result; no RouteDecision is produced
\* and speak_text is not called.
C15_NetworkFailurePropagates ==
    ( /\ cls_pc \in {"classify_intent", "process_input"}
      /\ cls_remote.kind \in NetworkFailures
      /\ IsGreeting(cls_text).intent = "not_greeting"
      /\ IsStop(cls_text).intent = "not_stop" )
    => /\ cls_out.raised = "RuntimeError"
       /\ cls_out.value.type # "dict"
       /\ route_output = NoDecision
       /\ calls = <<>>
       /\ cb_speak = "none"
       /\ \A k \in 1..Len(cls_trace) : cls_trace[k] # "route"

\* process_input on a movement command while the remote service times out.
C15_Witness ==
    /\ cls_pc = "process_input"
    /\ cls_text = "d9i tha83ng hai me1t"
    /\ cls_remote = Fails("Timeout")
    /\ cls_trace = <<"is_greeting", "is_stop", "call_openai">>
    /\ cls_out.raised = "RuntimeError"

C17_GreetingExamples ==
    cls_pc = "is_greeting"
    => /\ cls_text \in {"cha2o ba5n", "cha2o buo63i sa1ng nhe1"}
          => cls_local = Answer("greeting", TRUE, StrConfidence("high"))
       /\ cls_text = "o7 o72 a2" => cls_local.intent = "noise"
       /\ cls_text = "to6i muo61n d9i" => cls_local.intent = "not_greeting"

\* The stop words, fillers and texts of the claim, as the claim words them.
IsStopWord(w) == \E i \in 1..Len(STOP_WORDS) : STOP_WORDS[i] = w
FramedStopWord(normalized) ==
    \E p \in Range(STOP_PREFIXES) \cup {""},
       s \in Range(STOP_SUFFIXES) \cup {""},
       a \in {"", " "}, b \in {"", " "} :
       \E i \in 1..Len(STOP_WORDS) :
          normalized = p \o a \o STOP_WORDS[i] \o b \o s
HoldsStopWord(normalized) ==
    \E i \in 1..Len(STOP_WORDS) :
       \E k \in 1..Len(normalized) :
          /\ k + Len(STOP_WORDS[i]) - 1 <= Len(normalized)
          /\ SubSeq(normalized, k, k + Len(STOP_WORDS[i]) - 1) = STOP_WORDS[i]
TokenCount(normalized) ==
    Cardinality({k \in 1..Len(normalized) :
                    /\ CharAt(normalized, k) # " "
                    /\ k = 1 \/ CharAt(normalized, k - 1) = " "})

\* C18 (ClassifySpec): is_stop answers not_stop for every text whose
\* normalized form is empty or longer than 50 characters, even when it holds
\* a stop word; otherwise stop with high confidence when the whole normalized
\* text is an optional prefix filler, a stop word and an optional suffix
\* filler; otherwise stop with medium confidence when a stop word occurs
\* anywhere in it and it has at most 6 tokens; otherwise not_stop.
C18_StopClassifierCascade ==
    cls_pc = "is_stop"
    => LET n == StopNormalize(cls_text)
       IN  cls_local =
              IF n = "" \/ Len(n) > 50
              THEN Answer("not_stop", FALSE, NumConfidence(CONFIDENCE_HIGH))
              ELSE IF FramedStopWord(n)
              THEN Answer("stop", TRUE, NumConfidence(CONFIDENCE_HIGH))
              ELSE IF HoldsStopWord(n) /\ TokenCount(n) <= 6
              THEN Answer("stop", TRUE, NumConfidence(CONFIDENCE_MEDIUM))
              ELSE Answer("not_stop", FALSE, NumConfidence(CONFIDENCE_HIGH))

\* A text of two tokens and 51 characters that begins with a stop word.
C18_Witness ==
    /\ cls_pc = "is_stop"
    /\ Len(StopNormalize(cls_text)) = 51
    /\ StartsWith(StopNormalize(cls_text), "stop ")
    /\ TokenCount(StopNormalize(cls_text)) = 2
    /\ cls_local.intent = "not_stop"

\* The intent route works with, and whether it is unclassifiable: "unknown"
\* or in none of the configured sets.
RoutedIntent == IF route_input.intent = NULL THEN "unknown"
                ELSE route_input.intent
Unclassifiable(intent) ==
    \/ intent = "unknown"
    \/ intent \notin COMMAND_INTENTS \cup RESPONSE_INTENTS \cup ACTION_INTENTS

\* C19 (PipelineSpec): every result that is low-confidence or unclassifiable
\* (intent "unknown", or an intent of none of the command, response and
\* action sets) makes route return the one fixed apology phrase as its
\* response, whatever the confidence.
C19_UnclassifiableGetsApology ==
    ( /\ RouteCalled
      /\ cb_proc # "route_raises"
      /\ \/ ~route_output.passed
         \/ Unclassifiable(RoutedIntent) )
    => route_output.response = FallbackPhrase

\* C20 (PipelineSpec): for an action intent with passing confidence and no
\* handler registered under the intent's name, route returns action_result
\* None and an empty response, and speak_text is not called.
C20_NoHandlerNoResponse ==
    ( /\ RouteCalled
      /\ route_output.passed
      /\ RoutedIntent \in ACTION_INTENTS
      /\ \/ RoutedIntent \notin DOMAIN action_handlers
         \/ action_handlers[RoutedIntent] = NULL )
    => /\ route_output.action_result = NULL
       /\ route_output.response = ""
       /\ \A k \in 1..Len(calls) : calls[k].fn # "speak_text"

\* ---- C21
\* Finalization never runs with an empty Utterance: both calls of
\* _process_and_reset happen while recording, and the frame that started the
\* recording is in recorded_frames.
FinalizedUtteranceNotEmpty ==
    pc \in {"fin_begin", "enhance"} => recorded_frames # <<>>

\* ---- C22
\* A step in which a frame is processed (lines 174-236), and that frame.
ProcessesFrame == Len(trace') = Len(trace) + 1
FrameProcessed == trace'[Len(trace')]
\* The state a reset leaves: Armed, both buffers empty, a full grace window.
ArmedAfterReset ==
    /\ ~recording
    /\ pre_buffer = <<>>
    /\ recorded_frames = <<>>
    /\ consecutive_silence_frames = 0
    /\ ignore_frames_remaining = POST_RESUME_IGNORE_FRAMES

\* C22: while Active, a speech frame processed when more than
\* MAX_RECORDING_TICKS have passed since Active entry starts a finalization
\* instead of being accumulated; the Utterance accumulated so far is what is
\* handed to enhancement; when that finalization is over the loop goes on
\* with was_paused set, and from then on the engine reads no frame before it
\* has reset, whether or not ClearBufferFlag is set.
C22_CutoffForcesFinalization ==
    [][ /\ ( /\ ProcessesFrame
             /\ recording
             /\ FrameProcessed.speech
             /\ recording_start_time >= MAX_RECORDING_TICKS )
           => /\ pc' = "fin_begin"
              /\ fin_cause' = "cutoff"
              /\ recorded_frames' = recorded_frames
        /\ (fin_cause = "cutoff" /\ HandsOver) => handed' = recorded_frames
        /\ (fin_cause = "cutoff" /\ Finalizing /\ ~Finalizing')
           => /\ pc' = "poll_pause"
              /\ was_paused'
              /\ ret' = "running"
        /\ was_paused
           => /\ pc' # "read"
              /\ ~TakesFrame
              /\ ~was_paused' => ArmedAfterReset' ]_vars

\* A recording cut off at the ceiling: its frames were handed over, the
\* finalization is over and the reset is armed.
C22_Witness ==
    /\ fin_cause = "cutoff"
    /\ pc = "poll_pause"
    /\ was_paused
    /\ Len(handed) >= MAX_RECORDING_TICKS + 1
    /\ \A i \in 1..Len(handed) : handed[i].speech

\* ---- C23
\* A step of the engine thread.
EngineMoves == engineVars' # engineVars

\* C23: when ClearBufferFlag is set and no resume call is under way, the
\* engine's poll goes on to consume the flag, with PauseFlag set as with
\* PauseFlag clear, and consuming it performs the full reset: both buffers
\* empty, Armed, a full grace window.
C23_ClearFlagResetsWhateverPause ==
    [][ /\ ( /\ pc = "poll_pause"
             /\ need_clear_buffer
             /\ ext_pc = "idle"
             /\ EngineMoves )
           => pc' = "poll_clear"
        /\ (pc = "poll_clear" /\ need_clear_buffer /\ EngineMoves)
           => pc' = "clear_clear"
        /\ (pc = "clear_clear" /\ EngineMoves)
           => /\ ~need_clear_buffer'
              /\ ArmedAfterReset' ]_vars

\* ---- C24
\* C24 (InterruptSpec): when an interrupt unwinds run_recording_loop, the
\* stream is closed and PauseFlag is not left set; the session that
\* MicDriverNode.run starts afterwards begins Armed with empty buffers and
\* PauseFlag clear, so that it reads frames without waiting for a resume.
C24_InterruptLeavesFlagsConsistent ==
    [][ /\ (ret # "interrupted" /\ ret' = "interrupted")
           => /\ ~stream_active'
              /\ ~recording_paused'
        /\ (ret = "interrupted" /\ pc = "done" /\ pc' # "done")
           => /\ ~recording'
              /\ pre_buffer' = <<>>
              /\ recorded_frames' = <<>>
              /\ ~recording_paused' ]_vars

\* ---- C25
\* C25: from the return of a pause_recording() call made by another thread
\* until the next resume_recording() call begins (PauseFlag set, written
\* last by a pause, no resume under way, the engine not inside its own
\* finalization), the engine takes no frame and PreRollBuffer, Utterance and
\* the Armed/Active state do not change.
C25_PausedEngineIsFrozen ==
    [][ ( /\ recording_paused
          /\ pause_writer = "pause"
          /\ ext_pc = "idle"
          /\ ~Finalizing )
        => /\ ~TakesFrame
           /\ UNCHANGED <<pre_buffer, recorded_frames, recording>> ]_vars


\* C26: a failed stream read and a frame whose byte length is not
\* frameSize x sampleWidth leave PreRollBuffer, the Utterance, the
\* Armed/Active state, the silence-run counter and the remaining grace-window
\* count as they were; the loop goes back to its poll with the stream open and
\* nothing returned.
ReadsFromStream == pc = "read" /\ pc' # "read"
BadRead(r) ==
    \/ r.kind = "error"
    \/ r.kind = "frame" /\ r.len # FRAME_SIZE * SAMPLE_WIDTH
C26_BadReadChangesNothing ==
    [][ (ReadsFromStream /\ BadRead(last_read')) =>
            /\ UNCHANGED <<pre_buffer, recorded_frames, recording,
                           consecutive_silence_frames,
                           ignore_frames_remaining, nread, trace>>
            /\ pc' = "poll_pause"
            /\ ret = "running" /\ ret' = "running"
            /\ stream_active /\ stream_active' ]_vars
C26_Witness ==
    /\ pc = "poll_pause"
    /\ last_read.kind = "frame"
    /\ last_read.len \notin {0, FRAME_SIZE * SAMPLE_WIDTH}
    /\ recording
    /\ recorded_frames # <<>>
    /\ consecutive_silence_frames > 0
    /\ ret = "running"


\* C27: while Active, a non-speech frame finalizes the Utterance exactly when
\* it makes the run of non-speech frames since the last speech frame as long
\* as SILENCE_FRAMES_THRESHOLD; a speech frame sets the silence-run counter to
\* zero and never finalizes by silence, so runs shorter than the threshold do
\* not add up.
TrailingSilence(tr) ==
    IF SpeechAt(tr) = {} THEN Len(tr) ELSE Len(tr) - LastSpeech(tr)
FinalizesBySilence == pc' = "fin_begin" /\ fin_cause' = "silence"
C27_SilenceThresholdFinalizes ==
    [][ (ProcessesFrame /\ recording) =>
            /\ consecutive_silence_frames' = TrailingSilence(trace')
            /\ TrailingSilence(trace') <= SILENCE_FRAMES_THRESHOLD
            /\ FinalizesBySilence <=>
                  (~FrameProcessed.speech
                   /\ TrailingSilence(trace') = SILENCE_FRAMES_THRESHOLD)
            /\ FrameProcessed.speech =>
                  (consecutive_silence_frames' = 0
                   /\ (pc' = "fin_begin" => fin_cause' = "cutoff")) ]_vars
C27_Witness ==
    /\ pc = "fin_begin"
    /\ fin_cause = "silence"
    /\ recording
    /\ TrailingSilence(trace) = SILENCE_FRAMES_THRESHOLD
    /\ \E i, j, k \in 1..Len(trace) :
          /\ i < j /\ j < k
          /\ trace[i].speech /\ ~trace[j].speech /\ trace[k].speech
          /\ \E a, b \in 1..Len(recorded_frames) :
                recorded_frames[a] = trace[i] /\ recorded_frames[b] = trace[k]


\* C28: PreRollBuffer holds at most PRE_BUFFER_FRAMES frames, all of them
\* non-speech frames processed while Armed since the last reset, in arrival
\* order: the most recent PRE_BUFFER_FRAMES of them once more than that many
\* have been read.
QuietPrefix(tr) ==
    IF SpeechAt(tr) = {} THEN tr ELSE SubSeq(tr, 1, FirstSpeech(tr) - 1)
MostRecent(tr, n) ==
    IF Len(tr) <= n THEN tr ELSE SubSeq(tr, Len(tr) - n + 1, Len(tr))
C28_PreRollIsRecentSilence ==
    /\ Len(pre_buffer) <= PRE_BUFFER_FRAMES
    /\ \A i \in 1..Len(pre_buffer) : ~pre_buffer[i].speech
    /\ fin_cause = "none" =>
          pre_buffer = MostRecent(QuietPrefix(trace), PRE_BUFFER_FRAMES)


\* C30: when finalization runs with a non-empty Utterance and
\* enhance_utterance returns normally, the utterance callback is invoked
\* exactly once, with the stream stopped, with the signal and the sample rate
\* that enhance_utterance produced; the callback is invoked at no other step.
EnhanceReturns ==
    /\ pc = "enhance" /\ pc' # "enhance"
    /\ recorded_frames # <<>>
    /\ enh_outcome' = "returned"
C30_EnhancedUtteranceReachesCallback ==
    [][ /\ EnhanceReturns =>
              /\ cb_called' = cb_called + 1
              /\ cb_args' = <<EnhanceResult[1], EnhanceResult[2]>>
              /\ ~stream_active
        /\ cb_called' > cb_called => EnhanceReturns ]_vars


\* ---- C31
\* C31: the Utterance handed over at finalization contains every frame
\* processed from the first speech frame up to the last speech frame of the
\* utterance, in arrival order, the non-speech frames between two speech runs
\* included.
\* The frame that trips the max-duration ceiling is not part of the utterance
\* (C22); after a finalization by silence the utterance ends at its last
\* speech frame.
OnsetToEnd(tr) ==
    IF fin_cause = "cutoff" THEN SubSeq(tr, FirstSpeech(tr), Len(tr) - 1)
    ELSE SubSeq(tr, FirstSpeech(tr), LastSpeech(tr))
IsSubsequenceOf(s, t) ==
    \E pos \in [1..Len(s) -> 1..Len(t)] :
        /\ \A a \in 1..Len(s) : t[pos[a]] = s[a]
        /\ \A a, b \in 1..Len(s) : a < b => pos[a] < pos[b]
C31_UtteranceKeepsInnerSilence ==
    (handed # <<>> /\ SpeechAt(trace) # {}) =>
        IsSubsequenceOf(OnsetToEnd(trace), handed)


\* ---- C32
\* C32: route calls speak_text at most once per call, exactly when use_tts is
\* true and the response it produced is non-empty, with that response as the
\* text and as the last call it makes before it returns; when speak_text
\* answers false, route raises nothing and returns the very RouteDecision it
\* returns with use_tts false.
RouteReturned ==
    /\ cb_pc \in {"routed", "finally", "finally_resume"}
    /\ route_output # NoDecision
SpeakCalls == SelectSeq(calls, LAMBDA c : c.fn = "speak_text")
C32_SpeaksOnceWhenAsked ==
    /\ Len(SpeakCalls) <= 1
    /\ RouteReturned =>
        /\ Len(SpeakCalls) = 1 <=>
              (route_use_tts /\ route_output.response # "")
        /\ Len(SpeakCalls) = 1 =>
              /\ SpeakCalls[1].arg = route_output.response
              /\ calls[Len(calls)] \in {Call("speak_text", SpeakCalls[1].arg),
                                        Call("resume_recording", "")}
              /\ cb_speak \in {"ok", "failed"}
        /\ Len(SpeakCalls) = 0 => cb_speak = "none"
        /\ cb_speak = "failed" =>
              /\ cb_proc # "route_raises"
              /\ \E canned \in GetResponse(route_output.intent) :
                    route_output = Route(route_input, action_handlers,
                                         router_threshold, FALSE, canned).out
C32_Witness ==
    /\ cb_pc = "routed"
    /\ route_use_tts
    /\ cb_speak = "failed"
    /\ route_output.passed
    /\ route_output.command # NULL
    /\ route_output.response # ""
    /\ Len(SpeakCalls) = 1


\* ---- C33
\* C33: after any sequence of register_action calls, routing an action intent
\* with passing confidence invokes the handler most recently registered under
\* that intent name, once, and no other handler; the value it returns is the
\* RouteDecision's action_result.  A route that is not an action route with
\* passing confidence invokes no handler.
RegisteredUnder(name) == {i \in 1..Len(reg_log) : reg_log[i][1] = name}
LastRegistered(name) ==
    reg_log[CHOOSE i \in RegisteredUnder(name) :
                \A j \in RegisteredUnder(name) : j <= i][2]
HandlerCalls == SelectSeq(calls, LAMBDA c : c.fn = "handler")
RouteOver ==
    /\ cb_pc \in {"routed", "finally", "finally_resume"}
    /\ route_input # NoResult
ActionRoutePasses ==
    /\ route_input.intent \in ACTION_INTENTS
    /\ CheckConfidenceWithValue(route_input, router_threshold).passed
C33_LatestHandlerRunsOnce ==
    RouteOver =>
        /\ (ActionRoutePasses /\ RegisteredUnder(route_input.intent) # {}) =>
              /\ HandlerCalls =
                    <<Call("handler", LastRegistered(route_input.intent))>>
              /\ IF HandlerRaises(LastRegistered(route_input.intent))
                 THEN route_output = NoDecision
                 ELSE route_output.action_result =
                         HandlerValue(LastRegistered(route_input.intent),
                                      route_input)
        /\ ~(ActionRoutePasses /\ RegisteredUnder(route_input.intent) # {}) =>
              /\ HandlerCalls = <<>>
              /\ route_output.action_result = NULL
C33_Witness ==
    /\ cb_pc = "routed"
    /\ Len(reg_log) = 2
    /\ reg_log[1][1] = "tracking-person"
    /\ reg_log[2][1] = "tracking-person"
    /\ reg_log[1][2] # reg_log[2][2]
    /\ route_input.intent = "tracking-person"
    /\ route_output.action_result = HandlerValue(reg_log[2][2], route_input)
    /\ HandlerCalls = <<Call("handler", reg_log[2][2])>>


\* ---- C34
\* C34: a text that the stop classifier accepts, at high or at medium
\* confidence, and that the greeting/noise classifier does not claim first,
\* passes the default confidence gate: process_input gives passed = true,
\* route "command" and command "$SEQ,STOP\n", and the remote classifier is
\* not called.
StopDecides(text) ==
    /\ IsStop(text).flag
    /\ ~IsGreeting(text).flag
    /\ IsGreeting(text).intent # "noise"
C34_RuleBasedStopPassesGate ==
    (cls_pc = "process_input" /\ StopDecides(cls_text)) =>
        /\ cls_out.raised = NULL
        /\ IsStop(cls_text).confidence
              \in {NumConfidence(CONFIDENCE_HIGH),
                   NumConfidence(CONFIDENCE_MEDIUM)}
        /\ route_input.intent = "stop"
        /\ route_output.intent = "stop"
        /\ route_output.passed
        /\ route_output.route = "command"
        /\ route_output.command = "$SEQ,STOP\n"
        /\ cls_trace = <<"is_greeting", "is_stop", "route">>
C34_Witness ==
    /\ cls_pc = "process_input"
    /\ StopDecides(cls_text)
    /\ IsStop(cls_text).confidence = NumConfidence(CONFIDENCE_MEDIUM)
    /\ route_output.confidence = CONFIDENCE_THRESHOLD
    /\ route_output.passed
    /\ route_output.command = "$SEQ,STOP\n"
    /\ cls_remote = Fails("Timeout")


\* ---- C35
\* The engine when no other thread ever calls pause_recording(): PauseFlag
\* is set by the engine's own finalization only.  Another thread may call
\* resume_recording() or stay silent for ever.  The engine thread keeps
\* running: whenever a step of the loop would change the state, one is
\* eventually taken.
SelfPauseNext ==
    \/ EngineStep
    \/ CaptureWhileFinalizing
    \/ ExtResumeFirst
    \/ ExtResumeSecond
SelfPauseSpec ==
    /\ Init
    /\ [][SelfPauseNext]_vars
    /\ WF_vars(EngineStep)
    \* resume_recording() is two Event writes without any wait in between
    /\ WF_vars(ExtResumeSecond)

\* C35: under fairness of the engine thread, every finalization is eventually
\* followed by the engine reading from the stream again or by the loop
\* returning: the engine does not stay in the paused polling loop for ever
\* because of the PauseFlag that its own finalization set.
C35_FinalizationLeadsToReading ==
    (pc = "fin_begin") ~> (pc \in {"read", "done"})

\* ---- C36
\* C36: in every reachable state Active implies that the Utterance holds at
\* least one frame, and Armed implies that the Utterance is empty and the
\* silence-run counter is zero; finalization is never reached with an empty
\* Utterance.
C36_ActiveHoldsFramesArmedHoldsNone ==
    /\ recording => recorded_frames # <<>>
    /\ ~recording =>
          (recorded_frames = <<>> /\ consecutive_silence_frames = 0)
    /\ pc \in {"fin_begin", "enhance"} =>
          (recording /\ recorded_frames # <<>>)
C36_Witness ==
    /\ pc = "fin_begin"
    /\ recording
    /\ Len(recorded_frames) >= 2
    /\ consecutive_silence_frames = SILENCE_FRAMES_THRESHOLD
    /\ has_reset

\* ---- C37
\* C37: each pause/resume cycle causes exactly one reset of the engine: a
\* reset that finds was_paused set is the reset that consumes ClearBufferFlag,
\* and no reset happens once the ClearBufferFlag signal of the latest resume
\* call has been consumed by a reset, so the grace window is not armed a
\* second time for the same resume.
ResetStep == pc \in {"poll_clear", "clear_clear"} /\ pc' = "poll_pause"
C37_OneResetPerResume ==
    [][ ResetStep =>
            /\ was_paused => pc = "clear_clear"
            /\ clear_sig # "consumed" ]_vars

\* ---- C38
\* C38: across consecutive sessions every session opens its stream on a live
\* audio handle: the shared handle is never used to open a stream after the
\* exit of an earlier session has terminated it.
C38_StreamOpensOnLiveHandle == opened_on = "live"


\* ------------------------------------------------------------------ C39
\* PauseFlag is set by the latest pause_recording() and no resume has
\* cleared it since.
PausedSinceCall == recording_paused /\ pause_writer = "pause"

\* C39: when pause_recording() returns while the engine is past its PauseFlag
\* poll, the engine takes at most one more frame (a frame that may be
\* accepted or start a finalization) before it sees the pause: a frame is
\* taken under a set PauseFlag only from the read of the iteration already
\* under way and only as the first since that pause, and an engine that
\* polls a set PauseFlag stays at its poll and takes no frame, until a resume
\* clears the flag.
C39_AtMostOneFrameAfterPause ==
    [][ /\ PausedSinceCall' => since_pause' <= 1
        /\ (TakesFrame /\ recording_paused)
              => (pc = "read" /\ since_pause = 0 /\ pc' # "read")
        /\ (pc = "poll_pause" /\ recording_paused /\ EngineMoves)
              => (pc' = "poll_pause" /\ ~TakesFrame /\ was_paused') ]_vars

\* The engine has taken one frame after another thread's pause_recording()
\* returned, accepted it into the Utterance, and is back at its poll with
\* PauseFlag still set.
C39_Witness ==
    /\ PausedSinceCall
    /\ since_pause = 1
    /\ pc = "poll_pause"
    /\ recording
    /\ recorded_frames # <<>>


\* ------------------------------------------------------------------ C40
\* The two flags are touched independently: ClearBufferFlag is cleared only
\* by the second step of should_clear_buffer(), which leaves PauseFlag
\* alone; a step that sets PauseFlag (pause_recording()) leaves
\* ClearBufferFlag alone; the engine's poll of PauseFlag changes neither.
FlagsTouchedIndependently ==
    [][ /\ (need_clear_buffer /\ ~need_clear_buffer')
              => (pc = "clear_clear" /\ UNCHANGED recording_paused)
        /\ (~recording_paused /\ recording_paused')
              => UNCHANGED need_clear_buffer
        /\ (pc = "poll_pause" /\ EngineMoves) => UNCHANGED flagVars ]_vars

\* C40: with the engine and every begun resume_recording() call scheduled
\* fairly, each ClearBufferFlag signal set by a resume_recording() while the
\* loop runs is eventually consumed by a should_clear_buffer() call that
\* returns true (or the loop has ended), and the flags are touched
\* independently.
C40_EveryResumeIsConsumed ==
    /\ FlagsTouchedIndependently
    /\ (clear_sig = "set" /\ pc # "done")
          ~> (clear_sig = "consumed" \/ pc = "done")

====
